---------------------------- MODULE Spec2Model ----------------------------
(***************************************************************************)
(* Comparable-group valuation and ranking engine of Blocket-Bot            *)
(* (src/evaluator): comps statistics, key relaxation, comps resolution,    *)
(* the three scorers and the run_evaluation pipeline.                      *)
(*                                                                         *)
(* Conventions.                                                            *)
(*   Optional[T]   : <<>> is None, <<x>> is the value x.                   *)
(*   float         : an exact rational <<n, d>> in lowest terms, d > 0.    *)
(*   list          : a sequence; a dict keeps insertion order and is a     *)
(*                   sequence of <<key, value>> pairs where order matters. *)
(***************************************************************************)
EXTENDS Integers, Sequences, FiniteSets, TLC

VARIABLES
    pc,                 \* position of the running function
    call,               \* arguments of the function under check
    ret,                \* its return value (<<>> before it returned)
    listings,           \* run_evaluation: the input listings
    preferences,        \* run_evaluation: the preference dict
    min_comps_sample,   \* run_evaluation: min_comps_sample
    top_k,              \* run_evaluation: top_k (None until line 128 reads it)
    working_listings,   \* listings after the accessory filter
    attributes_map,     \* listing_id -> ExtractedAttributes (insertion ordered)
    canonical_keys,     \* listing_id -> CanonicalKey (insertion ordered)
    comps_groups,       \* result of build_comps_groups
    idx,                \* index of the scoring loop over working_listings
    scored_listings,    \* (listing, attrs, comps_group, final_score) tuples
    filtered_out,       \* counter of removed listings
    ranked_listings,    \* the RankedListing records
    result,             \* the EvaluationResult (<<>> before the return)
    seen_listings       \* storage.py: the rows of the table seen_listings

vars == <<pc, call, ret, listings, preferences, min_comps_sample, top_k,
          working_listings, attributes_map, canonical_keys, comps_groups,
          idx, scored_listings, filtered_out, ranked_listings, result,
          seen_listings>>

\* the variables of run_evaluation
pipeline_vars == <<listings, preferences, min_comps_sample, top_k,
                   working_listings, attributes_map, canonical_keys,
                   comps_groups, idx, scored_listings, filtered_out,
                   ranked_listings, result>>

None == <<>>
Some(x) == <<x>>
IsNone(o) == o = <<>>
Val(o) == o[1]

(***************************************************************************)
(* Sequence helpers (Python list operations).                              *)
(***************************************************************************)
Range(s) == {s[i] : i \in 1..Len(s)}

SeqsUpTo(S, n) == UNION {[1..k -> S] : k \in 0..n}

RECURSIVE SumSeq(_)
SumSeq(s) == IF s = <<>> THEN 0 ELSE Head(s) + SumSeq(Tail(s))

\* sorted(prices): ascending insertion sort
RECURSIVE InsertAsc(_, _)
InsertAsc(x, s) ==
    IF s = <<>> THEN <<x>>
    ELSE IF x < Head(s) THEN <<x>> \o s
    ELSE <<Head(s)>> \o InsertAsc(x, Tail(s))

RECURSIVE sorted(_)
sorted(s) == IF s = <<>> THEN <<>> ELSE InsertAsc(Head(s), sorted(Tail(s)))

(***************************************************************************)
(* Exact rational arithmetic standing for Python float arithmetic.         *)
(***************************************************************************)
Abs(x) == IF x < 0 THEN -x ELSE x

RECURSIVE GCD(_, _)
GCD(a, b) == IF b = 0 THEN a ELSE GCD(b, a % b)

Rat(n, d) ==
    LET s == IF d < 0 THEN -1 ELSE 1
        g == GCD(Abs(n), Abs(d))
    IN  <<(s * n) \div g, (s * d) \div g>>

R(i) == <<i, 1>>
RAdd(a, b) == Rat(a[1] * b[2] + b[1] * a[2], a[2] * b[2])
RSub(a, b) == Rat(a[1] * b[2] - b[1] * a[2], a[2] * b[2])
RMul(a, b) == Rat(a[1] * b[1], a[2] * b[2])
RDiv(a, b) == Rat(a[1] * b[2], a[2] * b[1])
RLt(a, b) == a[1] * b[2] < b[1] * a[2]
RLe(a, b) == a[1] * b[2] <= b[1] * a[2]
RMin(a, b) == IF RLt(b, a) THEN b ELSE a      \* Python min(a, b)
RMax(a, b) == IF RLt(a, b) THEN b ELSE a      \* Python max(a, b)

(***************************************************************************)
(* comps.py: compute_comps_stats                                           *)
(***************************************************************************)
\* quartile(data, q) with q = qn/4: linear interpolation at (len-1)*q
quartile(data, qn) ==
    LET idx4  == (Len(data) - 1) * qn          \* 4 * idx
        lower == idx4 \div 4                   \* int(idx), 0-based
        upper == lower + 1
        frac4 == idx4 - 4 * lower              \* 4 * (idx - lower)
    IN  IF upper >= Len(data)
        THEN R(data[lower + 1])
        ELSE Rat(4 * data[lower + 1]
                   + frac4 * (data[upper + 1] - data[lower + 1]), 4)

min_of(s) == CHOOSE x \in Range(s) : \A y \in Range(s) : x <= y   \* min(prices)
max_of(s) == CHOOSE x \in Range(s) : \A y \in Range(s) : x >= y   \* max(prices)

\* median without the even-length case
median_of_upper(prices) == R(prices[Len(prices) \div 2 + 1])

median_of(prices) ==
    LET n == Len(prices)
    IN  IF n % 2 = 0
        THEN Rat(prices[n \div 2] + prices[n \div 2 + 1], 2)
        ELSE R(prices[n \div 2 + 1])

compute_comps_stats(prices_in) ==
    IF prices_in = <<>> THEN None
    ELSE LET prices == sorted(prices_in)
             n      == Len(prices)
             q1     == quartile(prices, 1)
             q3     == quartile(prices, 3)
         IN  Some([median_price |-> median_of(prices),
                   iqr          |-> RSub(q3, q1),
                   q1           |-> q1,
                   q3           |-> q3,
                   min_price    |-> R(min_of(prices)),
                   max_price    |-> R(max_of(prices)),
                   n            |-> n])

(***************************************************************************)
(* schemas.py: Condition, CanonicalKey; attribute_packs/base.py            *)
(***************************************************************************)
Conditions == {"ny", "som_ny", "bra", "ok", "defekt", "unknown"}

CanonicalKey(family, model_variant, storage_bucket, condition_bucket) ==
    [family           |-> family,
     model_variant    |-> model_variant,
     storage_bucket   |-> storage_bucket,
     condition_bucket |-> condition_bucket]

\* the bounds of the storage buckets taken as exclusive
create_canonical_key_exclusive(attrs) ==
    LET storage_bucket ==
            IF IsNone(attrs.storage_gb) \/ Val(attrs.storage_gb) = 0 THEN None
            ELSE IF Val(attrs.storage_gb) < 64  THEN Some("64GB")
            ELSE IF Val(attrs.storage_gb) < 128 THEN Some("128GB")
            ELSE IF Val(attrs.storage_gb) < 256 THEN Some("256GB")
            ELSE IF Val(attrs.storage_gb) < 512 THEN Some("512GB")
            ELSE Some("1TB+")
        condition_bucket ==
            IF attrs.condition = "unknown" THEN None
            ELSE IF attrs.condition \in {"ny", "som_ny"} THEN Some("new")
            ELSE IF attrs.condition = "bra" THEN Some("good")
            ELSE Some("fair")
    IN  CanonicalKey("phone", attrs.model_variant, storage_bucket,
                     condition_bucket)

\* AttributePack.create_canonical_key with FAMILY = ProductFamily.PHONE
create_canonical_key(attrs) ==
    LET storage_bucket ==
            IF IsNone(attrs.storage_gb) \/ Val(attrs.storage_gb) = 0 THEN None
            ELSE IF Val(attrs.storage_gb) <= 64  THEN Some("64GB")
            ELSE IF Val(attrs.storage_gb) <= 128 THEN Some("128GB")
            ELSE IF Val(attrs.storage_gb) <= 256 THEN Some("256GB")
            ELSE IF Val(attrs.storage_gb) <= 512 THEN Some("512GB")
            ELSE Some("1TB+")
        condition_bucket ==
            IF attrs.condition = "unknown" THEN None
            ELSE IF attrs.condition \in {"ny", "som_ny"} THEN Some("new")
            ELSE IF attrs.condition = "bra" THEN Some("good")
            ELSE Some("fair")
    IN  CanonicalKey("phone", attrs.model_variant, storage_bucket,
                     condition_bucket)

(***************************************************************************)
(* comps.py: relax_comps_key, find_comps_for_listing                       *)
(***************************************************************************)
\* level 2 clears storage_bucket but leaves condition_bucket in place
relax_comps_key_keeps_condition(key, level) ==
    IF level = 0 THEN key
    ELSE IF level = 1 THEN
        CanonicalKey(key.family, key.model_variant, key.storage_bucket, None)
    ELSE IF level = 2 THEN
        CanonicalKey(key.family, key.model_variant, None, key.condition_bucket)
    ELSE
        CanonicalKey(key.family, None, None, None)

\* each level drops the one dimension its docstring line names
relax_comps_key_literal(key, level) ==
    IF level = 0 THEN key
    ELSE IF level = 1 THEN
        CanonicalKey(key.family, key.model_variant, key.storage_bucket, None)
    ELSE IF level = 2 THEN
        CanonicalKey(key.family, key.model_variant, None, key.condition_bucket)
    ELSE
        CanonicalKey(key.family, None, key.storage_bucket, key.condition_bucket)

\* level 3 clears model_variant and condition_bucket but leaves storage_bucket
relax_comps_key_keeps_storage(key, level) ==
    IF level = 0 THEN key
    ELSE IF level = 1 THEN
        CanonicalKey(key.family, key.model_variant, key.storage_bucket, None)
    ELSE IF level = 2 THEN
        CanonicalKey(key.family, key.model_variant, None, None)
    ELSE
        CanonicalKey(key.family, None, key.storage_bucket, None)

relax_comps_key(key, level) ==
    IF level = 0 THEN key
    ELSE IF level = 1 THEN
        CanonicalKey(key.family, key.model_variant, key.storage_bucket, None)
    ELSE IF level = 2 THEN
        CanonicalKey(key.family, key.model_variant, None, None)
    ELSE
        CanonicalKey(key.family, None, None, None)

\* the comparison of the inner loop body: the four fields agree
keys_agree(group_key, relaxed_key) ==
    /\ group_key.family = relaxed_key.family
    /\ group_key.model_variant = relaxed_key.model_variant
    /\ group_key.storage_bucket = relaxed_key.storage_bucket
    /\ group_key.condition_bucket = relaxed_key.condition_bucket

\* the test of the inner loop body: the four fields agree and the group has
\* stats with n >= min_sample
group_matches(group, relaxed_key, level, min_sample) ==
    LET group_key == relax_comps_key(group.comps_key, level)
    IN  /\ keys_agree(group_key, relaxed_key)
        /\ ~IsNone(group.stats)
        /\ Val(group.stats).n >= min_sample

\* inner loop "for group in all_groups" from position i: index of the first
\* group returned, 0 when the loop ends without returning
RECURSIVE scan_groups(_, _, _, _, _)
scan_groups(all_groups, relaxed_key, level, min_sample, i) ==
    IF i > Len(all_groups) THEN 0
    ELSE IF group_matches(all_groups[i], relaxed_key, level, min_sample) THEN i
    ELSE scan_groups(all_groups, relaxed_key, level, min_sample, i + 1)

\* outer loop "for level in range(4)" from level: <<group or None, level>>
RECURSIVE scan_levels(_, _, _, _)
scan_levels(canonical_key, all_groups, min_sample, level) ==
    IF level >= 4 THEN <<None, -1>>
    ELSE LET relaxed_key == relax_comps_key(canonical_key, level)
             i == scan_groups(all_groups, relaxed_key, level, min_sample, 1)
         IN  IF i # 0 THEN <<Some(all_groups[i]), level>>
             ELSE scan_levels(canonical_key, all_groups, min_sample, level + 1)

\* the two loops exchanged: the first group that matches at any level
RECURSIVE first_level_of(_, _, _, _)
first_level_of(group, canonical_key, min_sample, level) ==
    IF level >= 4 THEN -1
    ELSE IF group_matches(group, relax_comps_key(canonical_key, level), level,
                          min_sample)
         THEN level
         ELSE first_level_of(group, canonical_key, min_sample, level + 1)

RECURSIVE scan_groups_first(_, _, _, _)
scan_groups_first(canonical_key, all_groups, min_sample, i) ==
    IF i > Len(all_groups) THEN <<None, -1>>
    ELSE LET level == first_level_of(all_groups[i], canonical_key, min_sample, 0)
         IN  IF level # -1 THEN <<Some(all_groups[i]), level>>
             ELSE scan_groups_first(canonical_key, all_groups, min_sample, i + 1)

find_comps_groups_first(listing_id, canonical_key, all_groups, min_sample) ==
    scan_groups_first(canonical_key, all_groups, min_sample, 1)

find_comps_for_listing(listing_id, canonical_key, all_groups, min_sample) ==
    scan_levels(canonical_key, all_groups, min_sample, 0)

(***************************************************************************)
(* comps.py: build_comps_groups                                            *)
(***************************************************************************)
\* listing.get("price", {}) -> amount; the listing's price field is the
\* amount, None when the price is no dict or has no amount
amount_of(listing) == listing.price

has_positive_price(listing) ==
    /\ ~IsNone(amount_of(listing))
    /\ Val(amount_of(listing)) # 0
    /\ Val(amount_of(listing)) > 0

\* every listing opens an entry of its own, whether or not its key is there
dict_append_fresh(groups, key, listing) ==
    Append(groups, <<key, <<listing>>>>)

\* groups[key_tuple].append(listing) on an insertion-ordered dict
dict_append(groups, key, listing) ==
    IF \E i \in 1..Len(groups) : groups[i][1] = key
    THEN [i \in 1..Len(groups) |->
            IF groups[i][1] = key
            THEN <<key, Append(groups[i][2], listing)>>
            ELSE groups[i]]
    ELSE Append(groups, <<key, <<listing>>>>)

\* first loop: group listings by canonical key
RECURSIVE group_by_key(_, _, _)
group_by_key(ls, keys, groups) ==
    IF ls = <<>> THEN groups
    ELSE LET listing == Head(ls)
             listing_id == listing.listing_id
         IN  IF listing_id \notin DOMAIN keys
             THEN group_by_key(Tail(ls), keys, groups)
             ELSE group_by_key(Tail(ls), keys,
                               dict_append(groups, keys[listing_id], listing))

\* the priced members of one group, in order
RECURSIVE priced_members(_)
priced_members(group_listings) ==
    IF group_listings = <<>> THEN <<>>
    ELSE IF has_positive_price(Head(group_listings))
         THEN <<Head(group_listings)>> \o priced_members(Tail(group_listings))
         ELSE priced_members(Tail(group_listings))

\* is_sufficient counted over all members, priced or not
make_comps_group_all_members(key_tuple, group_listings, min_sample) ==
    LET members     == priced_members(group_listings)
        prices      == [i \in 1..Len(members) |-> Val(amount_of(members[i]))]
        listing_ids == [i \in 1..Len(members) |-> members[i].listing_id]
    IN  [comps_key        |-> key_tuple,
         listing_ids      |-> listing_ids,
         stats            |-> compute_comps_stats(prices),
         is_sufficient    |-> Len(group_listings) >= min_sample,
         relaxation_level |-> 0]

make_comps_group(key_tuple, group_listings, min_sample) ==
    LET members     == priced_members(group_listings)
        prices      == [i \in 1..Len(members) |-> Val(amount_of(members[i]))]
        listing_ids == [i \in 1..Len(members) |-> members[i].listing_id]
    IN  [comps_key        |-> key_tuple,
         listing_ids      |-> listing_ids,
         stats            |-> compute_comps_stats(prices),
         is_sufficient    |-> Len(prices) >= min_sample,
         relaxation_level |-> 0]

\* second loop: one CompsGroup per key that has at least one price
RECURSIVE build_groups(_, _)
build_groups(groups, min_sample) ==
    IF groups = <<>> THEN <<>>
    ELSE LET key_tuple      == Head(groups)[1]
             group_listings == Head(groups)[2]
         IN  IF priced_members(group_listings) = <<>>
             THEN build_groups(Tail(groups), min_sample)
             ELSE <<make_comps_group(key_tuple, group_listings, min_sample)>>
                    \o build_groups(Tail(groups), min_sample)

build_comps_groups(ls, attrs_map, keys, min_sample) ==
    build_groups(group_by_key(ls, keys, <<>>), min_sample)

(***************************************************************************)
(* Idle values of the run_evaluation state, for the specifications that    *)
(* exercise one function in isolation.                                     *)
(***************************************************************************)
PipelineIdle ==
    /\ listings = <<>>
    /\ preferences = None
    /\ min_comps_sample = 0
    /\ top_k = None
    /\ working_listings = <<>>
    /\ attributes_map = <<>>
    /\ canonical_keys = <<>>
    /\ comps_groups = <<>>
    /\ idx = 0
    /\ scored_listings = <<>>
    /\ filtered_out = 0
    /\ ranked_listings = <<>>
    /\ seen_listings = {}
    /\ result = None

(***************************************************************************)
(* SpecStats: compute_comps_stats applied to every bounded price list.     *)
(***************************************************************************)
MaxPrices == 5          \* longest price list
MaxPrice == 3           \* largest price
PriceValues == (-1)..MaxPrice
PriceLists == SeqsUpTo(PriceValues, MaxPrices)

InitStats ==
    /\ pc = "call"
    /\ call \in {[fn |-> "compute_comps_stats", prices |-> p] : p \in PriceLists}
    /\ ret = None
    /\ PipelineIdle

CallComputeCompsStats ==
    /\ pc = "call"
    /\ call.fn = "compute_comps_stats"
    /\ ret' = compute_comps_stats(call.prices)
    /\ pc' = "return"
    /\ UNCHANGED <<seen_listings, call, pipeline_vars>>

NextStats == CallComputeCompsStats

SpecStats == InitStats /\ [][NextStats]_vars

\* C4: for every non-empty price list the returned stats are ordered
\* min_price <= q1 <= median_price <= q3 <= max_price, and iqr = q3 - q1 >= 0.
C4_StatsOrdered ==
    (pc = "return" /\ call.fn = "compute_comps_stats" /\ call.prices # <<>>) =>
        /\ ~IsNone(ret)
        /\ LET s == Val(ret)
           IN  /\ RLe(s.min_price, s.q1)
               /\ RLe(s.q1, s.median_price)
               /\ RLe(s.median_price, s.q3)
               /\ RLe(s.q3, s.max_price)
               /\ s.iqr[1] * s.q3[2] * s.q1[2]
                    = s.iqr[2] * (s.q3[1] * s.q1[2] - s.q1[1] * s.q3[2])
               /\ s.iqr[1] >= 0

\* a list of at least four prices whose quartiles are pairwise different and
\* fall strictly between the extremes
C4_Witness ==
    /\ pc = "return"
    /\ call.fn = "compute_comps_stats"
    /\ Len(call.prices) >= 4
    /\ ~IsNone(ret)
    /\ RLt(Val(ret).min_price, Val(ret).q1)
    /\ RLt(Val(ret).q1, Val(ret).median_price)
    /\ RLt(Val(ret).median_price, Val(ret).q3)
    /\ RLt(Val(ret).q3, Val(ret).max_price)
    /\ call.prices # sorted(call.prices)

(***************************************************************************)
(* SpecRelax: relax_comps_key applied, once or repeatedly, to every key.   *)
(***************************************************************************)
MaxRelaxCalls == 2      \* successive applications of relax_comps_key
Families == {"phone", "laptop"}
ModelVariants == {None, Some("iPhone 15"), Some("iPhone 15 Pro")}
StorageBuckets == {None, Some("128GB"), Some("256GB")}
ConditionBuckets == {None, Some("new"), Some("good")}
Keys == {CanonicalKey(f, m, s, c) :
            f \in Families, m \in ModelVariants,
            s \in StorageBuckets, c \in ConditionBuckets}
Levels == 0..3

InitRelax ==
    /\ pc = "call"
    /\ call \in {[fn |-> "relax_comps_key", key |-> k, levels |-> <<>>] : k \in Keys}
    /\ ret = None
    /\ PipelineIdle

\* one call of relax_comps_key on the original key or on the previous result
CallRelaxCompsKey ==
    /\ call.fn = "relax_comps_key"
    /\ Len(call.levels) < MaxRelaxCalls
    /\ \E level \in Levels :
        /\ ret' = Some(relax_comps_key(IF IsNone(ret) THEN call.key ELSE Val(ret),
                                       level))
        /\ call' = [call EXCEPT !.levels = Append(@, level)]
    /\ pc' = "return"
    /\ UNCHANGED <<seen_listings, pipeline_vars>>

NextRelax == CallRelaxCompsKey

SpecRelax == InitRelax /\ [][NextRelax]_vars

\* C6: relax_comps_key returns a key for each level 0..3 and keeps family;
\* level 0 returns the key unchanged, level 1 clears only condition_bucket,
\* level 2 clears condition_bucket and storage_bucket and keeps model_variant,
\* level 3 keeps only family.
C6_RelaxTable ==
    (call.fn = "relax_comps_key" /\ Len(call.levels) = 1) =>
        /\ ~IsNone(ret)
        /\ LET k == call.key
               r == Val(ret)
               l == call.levels[1]
           IN  /\ DOMAIN r = DOMAIN k
               /\ r.family = k.family
               /\ l = 0 => r = k
               /\ l = 1 => /\ r.model_variant = k.model_variant
                           /\ r.storage_bucket = k.storage_bucket
                           /\ IsNone(r.condition_bucket)
               /\ l = 2 => /\ r.model_variant = k.model_variant
                           /\ IsNone(r.storage_bucket)
                           /\ IsNone(r.condition_bucket)
               /\ l = 3 => /\ IsNone(r.model_variant)
                           /\ IsNone(r.storage_bucket)
                           /\ IsNone(r.condition_bucket)

\* a fully populated key relaxed at level 2
C6_Witness ==
    /\ call.fn = "relax_comps_key"
    /\ call.levels = <<2>>
    /\ ~IsNone(call.key.model_variant)
    /\ ~IsNone(call.key.storage_bucket)
    /\ ~IsNone(call.key.condition_bucket)
    /\ Val(ret).model_variant = call.key.model_variant
    /\ IsNone(Val(ret).storage_bucket)

\* C7: relaxing at level 1 a key already relaxed at level 1 changes nothing,
\* and a key relaxed at level 3 has model_variant, storage_bucket and
\* condition_bucket empty and the family of the original key.
C7_RelaxIdempotent ==
    /\ [][(call.fn = "relax_comps_key" /\ call.levels = <<1>>
             /\ call'.levels = <<1, 1>>) => ret' = ret]_vars
    /\ [](call.fn = "relax_comps_key" /\ call.levels = <<3>> =>
             /\ IsNone(Val(ret).model_variant)
             /\ IsNone(Val(ret).storage_bucket)
             /\ IsNone(Val(ret).condition_bucket)
             /\ Val(ret).family = call.key.family)

\* a key with a condition bucket relaxed twice at level 1
C7_Witness ==
    /\ call.fn = "relax_comps_key"
    /\ call.levels = <<1, 1>>
    /\ ~IsNone(call.key.condition_bucket)
    /\ ~IsNone(call.key.storage_bucket)
    /\ IsNone(Val(ret).condition_bucket)
    /\ Val(ret).storage_bucket = call.key.storage_bucket

(***************************************************************************)
(* Listings.  A normalized listing dict is a record; its free text (title  *)
(* and raw body) is represented by what the extractor's and the risk       *)
(* module's patterns find in it.                                           *)
(***************************************************************************)
Listing(listing_id, url, price, accessory, model_variant, storage_gb, condition, has_cracks, battery_health, flags) ==
    [listing_id         |-> listing_id,        \* str(listing.get("listing_id", ""))
     url                |-> url,               \* listing.get("url", "")
     price              |-> price,             \* price["amount"], None if absent
     accessory          |-> accessory,         \* title matches ACCESSORY_KEYWORDS
     model_variant      |-> model_variant,
     storage_gb         |-> storage_gb,
     condition          |-> condition,
     has_cracks         |-> has_cracks,
     battery_health     |-> battery_health,
     has_warranty       |-> flags.has_warranty,
     has_receipt        |-> flags.has_receipt,
     is_locked          |-> flags.is_locked,
     urgency            |-> flags.urgency,            \* an URGENCY_PATTERNS match
     suspicious_payment |-> flags.suspicious_payment, \* a SUSPICIOUS_PAYMENT_PATTERNS match
     text_length        |-> flags.text_length,        \* len(title) + len(description)
     images             |-> flags.images]             \* number of images in raw

PlainFlags ==
    [has_warranty |-> None, has_receipt |-> None, is_locked |-> None,
     urgency |-> FALSE, suspicious_payment |-> FALSE,
     text_length |-> 120, images |-> 3]

\* AttributePack.extract: the typed fields of ExtractedAttributes
extract(listing) ==
    [listing_id     |-> listing.listing_id,
     product_family |-> "phone",
     storage_gb     |-> listing.storage_gb,
     condition      |-> listing.condition,
     has_cracks     |-> listing.has_cracks,
     battery_health |-> listing.battery_health,
     has_warranty   |-> listing.has_warranty,
     has_receipt    |-> listing.has_receipt,
     is_locked      |-> listing.is_locked,
     model_variant  |-> listing.model_variant]

\* the extraction loop of run_evaluation: listings without an id are skipped
\* and a later listing overwrites the entry of an earlier one with the same id
last_with_id(ls, id) ==
    ls[CHOOSE i \in 1..Len(ls) :
          /\ ls[i].listing_id = id
          /\ \A j \in (i + 1)..Len(ls) : ls[j].listing_id # id]

extract_attributes_map(ls) ==
    [id \in {ls[i].listing_id : i \in 1..Len(ls)} \ {""} |->
        extract(last_with_id(ls, id))]

extract_canonical_keys(ls) ==
    LET attrs_map == extract_attributes_map(ls)
    IN  [id \in DOMAIN attrs_map |-> create_canonical_key(attrs_map[id])]

(***************************************************************************)
(* SpecFind: find_comps_for_listing over every bounded list of groups.     *)
(***************************************************************************)
MaxGroups == 3          \* longest list of comps groups
FindKeys == {CanonicalKey("phone", m, s, c) :
                m \in {Some("iPhone 15"), Some("iPhone 15 Pro")},
                s \in {Some("128GB"), Some("256GB")},
                c \in {None, Some("new")}}
FindSizes == {1, 2}     \* stats.n of a group
FindMinSamples == {2}

\* a group as build_comps_groups makes it, with n prices
FindGroup(key, n) ==
    [comps_key        |-> key,
     listing_ids      |-> [i \in 1..n |-> "x"],
     stats            |-> compute_comps_stats([i \in 1..n |-> 1]),
     is_sufficient    |-> TRUE,
     relaxation_level |-> 0]

FindGroups == {FindGroup(k, n) : k \in FindKeys, n \in FindSizes}

\* build_comps_groups returns one group per key
FindGroupLists ==
    {gs \in SeqsUpTo(FindGroups, MaxGroups) :
        \A i, j \in 1..Len(gs) : i # j => gs[i].comps_key # gs[j].comps_key}

InitFind ==
    /\ pc = "call"
    /\ call \in {[fn |-> "find_comps_for_listing", canonical_key |-> k,
                  all_groups |-> gs, min_sample |-> ms] :
                    k \in FindKeys, gs \in FindGroupLists, ms \in FindMinSamples}
    /\ ret = None
    /\ PipelineIdle

CallFindCompsForListing ==
    /\ pc = "call"
    /\ call.fn = "find_comps_for_listing"
    /\ ret' = find_comps_for_listing("x", call.canonical_key, call.all_groups,
                                     call.min_sample)
    /\ pc' = "return"
    /\ UNCHANGED <<seen_listings, call, pipeline_vars>>

NextFind == CallFindCompsForListing

SpecFind == InitFind /\ [][NextFind]_vars

\* positions of the groups that match the target at a level and are large enough
C8_Candidates(level) ==
    {i \in 1..Len(call.all_groups) :
        /\ relax_comps_key(call.all_groups[i].comps_key, level)
             = relax_comps_key(call.canonical_key, level)
        /\ Val(call.all_groups[i].stats).n >= call.min_sample}

\* C8: find_comps_for_listing returns (g, L) with L the smallest level 0..3 at
\* which some group matching the target after relaxation has n >= min_sample
\* and g the first such group of the list; it returns (None, -1) exactly when
\* no level has such a group.
C8_FindFirstAtSmallestLevel ==
    (pc = "return" /\ call.fn = "find_comps_for_listing") =>
        IF \E L \in Levels : C8_Candidates(L) # {}
        THEN LET L == CHOOSE l \in Levels :
                        /\ C8_Candidates(l) # {}
                        /\ \A m \in Levels : m < l => C8_Candidates(m) = {}
                 i == CHOOSE c \in C8_Candidates(L) :
                        \A d \in C8_Candidates(L) : c <= d
             IN  ret = <<Some(call.all_groups[i]), L>>
        ELSE ret = <<None, -1>>

\* the returned group is not the first of the list and is found only after
\* relaxation, while an earlier group matches at a higher level
C8_Witness ==
    /\ pc = "return"
    /\ call.fn = "find_comps_for_listing"
    /\ ret[2] = 1
    /\ Len(call.all_groups) = 3
    /\ ret[1] = Some(call.all_groups[3])
    /\ C8_Candidates(2) \cap {1, 2} # {}
    /\ \E i \in 1..3 : call.all_groups[i].comps_key = call.canonical_key

\* no group at any level: (None, -1) although groups of the family exist
C8_WitnessNone ==
    /\ pc = "return"
    /\ call.fn = "find_comps_for_listing"
    /\ ret = <<None, -1>>
    /\ Len(call.all_groups) = 3

(***************************************************************************)
(* SpecBuild: build_comps_groups over every bounded working set, with the  *)
(* canonical keys run_evaluation extracts for it.                          *)
(***************************************************************************)
MaxBuildListings == 3   \* longest working set
BuildIds == {"", "a", "b"}
BuildPrices == {None, Some(0), Some(1)}
BuildConditions == {"bra", "unknown"}
BuildMinSamples == {1, 2}

BuildListings ==
    {Listing(id, "u", p, FALSE, Some("iPhone 15"), Some(128), c, None, None, PlainFlags) :
        id \in BuildIds, p \in BuildPrices, c \in BuildConditions}

InitBuild ==
    /\ pc = "call"
    /\ call \in {[fn |-> "build_comps_groups", listings |-> ls,
                  attributes_map |-> extract_attributes_map(ls),
                  canonical_keys |-> extract_canonical_keys(ls),
                  min_sample |-> ms] :
                    ls \in SeqsUpTo(BuildListings, MaxBuildListings),
                    ms \in BuildMinSamples}
    /\ ret = None
    /\ PipelineIdle

CallBuildCompsGroups ==
    /\ pc = "call"
    /\ call.fn = "build_comps_groups"
    /\ ret' = build_comps_groups(call.listings, call.attributes_map,
                                 call.canonical_keys, call.min_sample)
    /\ pc' = "return"
    /\ UNCHANGED <<seen_listings, call, pipeline_vars>>

NextBuild == CallBuildCompsGroups

SpecBuild == InitBuild /\ [][NextBuild]_vars

\* positions of the listings grouped under a key that have a positive price
C5_PricedMembers(key) ==
    {i \in 1..Len(call.listings) :
        /\ call.listings[i].listing_id \in DOMAIN call.canonical_keys
        /\ call.canonical_keys[call.listings[i].listing_id] = key
        /\ ~IsNone(call.listings[i].price)
        /\ Val(call.listings[i].price) > 0}

\* C5: every group build_comps_groups returns has is_sufficient = TRUE exactly
\* when stats.n >= min_sample, and stats.n is the number of the group's
\* members that have a positive price.
C5_SufficientIffLargeEnough ==
    (pc = "return" /\ call.fn = "build_comps_groups") =>
        \A i \in 1..Len(ret) :
            /\ ~IsNone(ret[i].stats)
            /\ ret[i].is_sufficient <=> (Val(ret[i].stats).n >= call.min_sample)
            /\ Val(ret[i].stats).n = Cardinality(C5_PricedMembers(ret[i].comps_key))

\* an insufficient group that has enough members when the unpriced ones are
\* counted too
C5_Witness ==
    /\ pc = "return"
    /\ call.fn = "build_comps_groups"
    /\ call.min_sample = 2
    /\ Len(ret) = 1
    /\ ~ret[1].is_sufficient
    /\ Cardinality({i \in 1..Len(call.listings) :
            /\ call.listings[i].listing_id \in DOMAIN call.canonical_keys
            /\ call.canonical_keys[call.listings[i].listing_id] = ret[1].comps_key})
         >= 2

(***************************************************************************)
(* valuation.py, scoring.py, risk.py                                       *)
(***************************************************************************)
compute_expected_price(comps) ==
    IF ~IsNone(comps.stats) THEN Some(Val(comps.stats).median_price) ELSE None

\* the difference taken relative to the asking price
compute_deal_delta_of_asking(asking_price, expected_price) ==
    IF RLe(expected_price, R(0)) THEN R(0)
    ELSE RDiv(RSub(expected_price, R(asking_price)), R(asking_price))

compute_deal_delta(asking_price, expected_price) ==
    IF RLe(expected_price, R(0)) THEN R(0)
    ELSE RDiv(RSub(expected_price, R(asking_price)), expected_price)

\* max(0, min(100, x))
clamp_0_100(x) == RMax(R(0), RMin(R(100), x))

ValueScore(score, asking_price, expected_price, deal_delta, comps_key, comps_n) ==
    [score          |-> score,
     asking_price   |-> asking_price,
     expected_price |-> expected_price,
     deal_delta     |-> deal_delta,
     comps_key      |-> comps_key,
     comps_n        |-> comps_n]

\* a missing asking price is taken for a price of 0
compute_value_score_free(asking_price, comps) ==
    IF IsNone(comps) \/ IsNone(Val(comps).stats)
    THEN ValueScore(R(50), asking_price, None, None, None, 0)
    ELSE LET expected   == Val(compute_expected_price(Val(comps)))
             price      == IF IsNone(asking_price) THEN 0 ELSE Val(asking_price)
             deal_delta == compute_deal_delta(price, expected)
             raw_score  == RAdd(R(50), RMul(deal_delta, R(100)))
         IN  ValueScore(clamp_0_100(raw_score), asking_price, Some(expected),
                        Some(deal_delta), Some(Val(comps).comps_key),
                        Val(Val(comps).stats).n)

compute_value_score(asking_price, comps) ==
    IF \/ IsNone(asking_price) \/ Val(asking_price) = 0
       \/ IsNone(comps)
       \/ IsNone(Val(comps).stats)
    THEN ValueScore(R(50), asking_price, None, None, None,
                    IF ~IsNone(comps) /\ ~IsNone(Val(comps).stats)
                    THEN Val(Val(comps).stats).n ELSE 0)
    ELSE LET expected == compute_expected_price(Val(comps))
         IN  IF IsNone(expected) \/ Val(expected)[1] = 0
                \/ RLe(Val(expected), R(0))
             THEN ValueScore(R(50), asking_price, None, None, None, 0)
             ELSE LET deal_delta == compute_deal_delta(Val(asking_price),
                                                       Val(expected))
                      raw_score  == RAdd(R(50), RMul(deal_delta, R(100)))
                  IN  ValueScore(clamp_0_100(raw_score), asking_price, expected,
                                 Some(deal_delta), Some(Val(comps).comps_key),
                                 Val(Val(comps).stats).n)

\* condition_order.index(c)
condition_order == <<"ny", "som_ny", "bra", "ok", "defekt", "unknown">>
condition_index(c) == CHOOSE i \in 1..Len(condition_order) : condition_order[i] = c

Preferences(no_cracks, condition, min_battery_health, has_warranty, has_receipt, unlocked) ==
    [no_cracks          |-> no_cracks,          \* None when the key is absent
     condition          |-> condition,
     min_battery_health |-> min_battery_health,
     has_warranty       |-> has_warranty,
     has_receipt        |-> has_receipt,
     unlocked           |-> unlocked]

\* the "no_cracks" hard filter: <<failed filters, missing-info items>>
no_cracks_filter(attrs, prefs) ==
    IF prefs.no_cracks = Some(TRUE)
    THEN IF attrs.has_cracks = Some(TRUE) THEN <<<<"no_cracks">>, <<>>>>
         ELSE IF IsNone(attrs.has_cracks) THEN <<<<>>, <<"Sprickstatus">>>>
         ELSE <<<<>>, <<>>>>
    ELSE <<<<>>, <<>>>>

\* the filter without the test for Condition.UNKNOWN: an unknown condition
\* sits at the end of condition_order and is worse than every minimum
condition_filter_unknown_worst(attrs, prefs) ==
    IF IsNone(prefs.condition) \/ Val(prefs.condition) = "" THEN <<<<>>, <<>>>>
    ELSE IF Val(prefs.condition) \notin Conditions THEN <<<<>>, <<>>>>
    ELSE IF condition_index(attrs.condition) > condition_index(Val(prefs.condition))
         THEN <<<<"condition">>, <<>>>>
         ELSE <<<<>>, <<>>>>

\* the minimum-condition hard filter; Condition(min_condition) raises
\* ValueError for a value outside the enum and the except clause passes
condition_filter(attrs, prefs) ==
    IF IsNone(prefs.condition) \/ Val(prefs.condition) = "" THEN <<<<>>, <<>>>>
    ELSE IF Val(prefs.condition) \notin Conditions THEN <<<<>>, <<>>>>
    ELSE LET min_idx    == condition_index(Val(prefs.condition))
             actual_idx == condition_index(attrs.condition)
         IN  IF attrs.condition = "unknown" THEN <<<<>>, <<"Skick">>>>
             ELSE IF actual_idx > min_idx THEN <<<<"condition">>, <<>>>>
             ELSE <<<<>>, <<>>>>

\* soft preferences, each <<soft_scores entries, missing-info items>>
battery_soft(attrs, prefs) ==
    IF IsNone(prefs.min_battery_health) \/ Val(prefs.min_battery_health) = 0
    THEN <<<<>>, <<>>>>
    ELSE IF ~IsNone(attrs.battery_health)
         THEN IF Val(attrs.battery_health) >= Val(prefs.min_battery_health)
              THEN <<<< <<"battery", R(100)>> >>, <<>>>>
              ELSE <<<< <<"battery",
                          RMax(R(0), RMul(Rat(Val(attrs.battery_health),
                                              Val(prefs.min_battery_health)),
                                          R(100)))>> >>, <<>>>>
         ELSE <<<< <<"battery", R(50)>> >>, <<"Batterihalsa">>>>

warranty_soft(attrs, prefs) ==
    IF ~prefs.has_warranty THEN <<<<>>, <<>>>>
    ELSE IF attrs.has_warranty = Some(TRUE) THEN <<<< <<"warranty", R(100)>> >>, <<>>>>
    ELSE IF attrs.has_warranty = Some(FALSE) THEN <<<< <<"warranty", R(30)>> >>, <<>>>>
    ELSE <<<< <<"warranty", R(50)>> >>, <<"Garantistatus">>>>

receipt_soft(attrs, prefs) ==
    IF ~prefs.has_receipt THEN <<<<>>, <<>>>>
    ELSE IF attrs.has_receipt = Some(TRUE) THEN <<<< <<"receipt", R(100)>> >>, <<>>>>
    ELSE IF attrs.has_receipt = Some(FALSE) THEN <<<< <<"receipt", R(40)>> >>, <<>>>>
    ELSE <<<< <<"receipt", R(50)>> >>, <<>>>>

\* the unlocked preference scored on the scale of the receipt preference
unlocked_soft_as_receipt(attrs, prefs) ==
    IF ~prefs.unlocked THEN <<<<>>, <<>>>>
    ELSE IF attrs.is_locked = Some(FALSE) THEN <<<< <<"unlocked", R(100)>> >>, <<>>>>
    ELSE IF attrs.is_locked = Some(TRUE) THEN <<<< <<"unlocked", R(40)>> >>, <<>>>>
    ELSE <<<< <<"unlocked", R(50)>> >>, <<>>>>

unlocked_soft(attrs, prefs) ==
    IF ~prefs.unlocked THEN <<<<>>, <<>>>>
    ELSE IF attrs.is_locked = Some(FALSE) THEN <<<< <<"unlocked", R(100)>> >>, <<>>>>
    ELSE IF attrs.is_locked = Some(TRUE) THEN <<<< <<"unlocked", R(20)>> >>, <<>>>>
    ELSE <<<< <<"unlocked", R(60)>> >>, <<>>>>

\* sum(soft_scores.values())
RECURSIVE sum_values(_)
sum_values(soft_scores) ==
    IF soft_scores = <<>> THEN R(0)
    ELSE RAdd(Head(soft_scores)[2], sum_values(Tail(soft_scores)))

\* the penalty is 5 points once, however many items are missing
compute_preference_score_flat_penalty(attrs, prefs) ==
    LET cracks    == no_cracks_filter(attrs, prefs)
        cond      == condition_filter(attrs, prefs)
        battery   == battery_soft(attrs, prefs)
        warranty  == warranty_soft(attrs, prefs)
        receipt   == receipt_soft(attrs, prefs)
        unlocked  == unlocked_soft(attrs, prefs)
        failed_hard_filters == cracks[1] \o cond[1]
        hard_filters_passed == failed_hard_filters = <<>>
        soft_scores == battery[1] \o warranty[1] \o receipt[1] \o unlocked[1]
        missing_penalties ==
            cracks[2] \o cond[2] \o battery[2] \o warranty[2] \o receipt[2]
              \o unlocked[2]
        avg_soft == IF soft_scores # <<>>
                    THEN RDiv(sum_values(soft_scores), R(Len(soft_scores)))
                    ELSE R(80)
        penalty == IF missing_penalties # <<>> THEN 5 ELSE 0
        score == IF ~hard_filters_passed THEN R(0)
                 ELSE clamp_0_100(RSub(avg_soft, R(penalty)))
    IN  [score                  |-> score,
         hard_filters_passed    |-> hard_filters_passed,
         soft_scores            |-> soft_scores,
         missing_info_penalties |-> missing_penalties,
         failed_hard_filters    |-> failed_hard_filters]

compute_preference_score(attrs, prefs) ==
    LET cracks    == no_cracks_filter(attrs, prefs)
        cond      == condition_filter(attrs, prefs)
        battery   == battery_soft(attrs, prefs)
        warranty  == warranty_soft(attrs, prefs)
        receipt   == receipt_soft(attrs, prefs)
        unlocked  == unlocked_soft(attrs, prefs)
        failed_hard_filters == cracks[1] \o cond[1]
        hard_filters_passed == failed_hard_filters = <<>>
        soft_scores == battery[1] \o warranty[1] \o receipt[1] \o unlocked[1]
        missing_penalties ==
            cracks[2] \o cond[2] \o battery[2] \o warranty[2] \o receipt[2]
              \o unlocked[2]
        avg_soft == IF soft_scores # <<>>
                    THEN RDiv(sum_values(soft_scores), R(Len(soft_scores)))
                    ELSE R(80)
        penalty == Len(missing_penalties) * 5
        score == IF ~hard_filters_passed THEN R(0)
                 ELSE clamp_0_100(RSub(avg_soft, R(penalty)))
    IN  [score                  |-> score,
         hard_filters_passed    |-> hard_filters_passed,
         soft_scores            |-> soft_scores,
         missing_info_penalties |-> missing_penalties,
         failed_hard_filters    |-> failed_hard_filters]

\* risk.py: the flags in the order assess_risk appends them
risk_flags(listing, comps_stats) ==
    (IF /\ ~IsNone(listing.price) /\ Val(listing.price) # 0
        /\ ~IsNone(comps_stats)
        /\ RLt(R(Val(listing.price)),
               RSub(Val(comps_stats).q1, RMul(Rat(3, 2), Val(comps_stats).iqr)))
     THEN <<"unusually_low_price">> ELSE <<>>)
    \o (IF listing.urgency THEN <<"urgency_detected">> ELSE <<>>)
    \o (IF listing.suspicious_payment THEN <<"suspicious_payment">> ELSE <<>>)
    \o (IF listing.text_length < 50 THEN <<"low_information">> ELSE <<>>)
    \o (IF listing.images = 0 THEN <<"no_images">> ELSE <<>>)

risk_weights ==
    [flag \in {"unusually_low_price", "urgency_detected", "suspicious_payment",
               "low_information", "no_images", "conflicting_attributes",
               "new_seller"} |->
        CASE flag = "unusually_low_price"    -> 35
          [] flag = "urgency_detected"       -> 20
          [] flag = "suspicious_payment"     -> 40
          [] flag = "low_information"        -> 15
          [] flag = "no_images"              -> 20
          [] flag = "conflicting_attributes" -> 25
          [] flag = "new_seller"             -> 10]

\* the sum of the weights without the cap at 100
assess_risk_uncapped(listing, comps_stats) ==
    LET flags == risk_flags(listing, comps_stats)
        total == SumSeq([i \in 1..Len(flags) |-> risk_weights[flags[i]]])
    IN  [score |-> R(total),
         flags |-> Range(flags)]

assess_risk(listing, comps_stats) ==
    LET flags == risk_flags(listing, comps_stats)
        total == SumSeq([i \in 1..Len(flags) |-> risk_weights[flags[i]]])
    IN  [score |-> RMin(R(total), R(100)),
         flags |-> Range(flags)]

\* the weighted sum without the hard-filter test
compute_final_score_unguarded(value, preference, risk) ==
    clamp_0_100(RSub(RAdd(RMul(Rat(1, 2), value.score),
                          RMul(Rat(35, 100), preference.score)),
                     RMul(Rat(15, 100), risk.score)))

compute_final_score(value, preference, risk) ==
    IF ~preference.hard_filters_passed THEN R(0)
    ELSE LET weighted == RSub(RAdd(RMul(Rat(1, 2), value.score),
                                   RMul(Rat(35, 100), preference.score)),
                              RMul(Rat(15, 100), risk.score))
         IN  clamp_0_100(weighted)

score_listing(listing, attrs, comps, prefs) ==
    LET asking_price     == amount_of(listing)
        value_score      == compute_value_score(asking_price, comps)
        preference_score == compute_preference_score(attrs, prefs)
        risk_assessment  == assess_risk(listing,
                                IF ~IsNone(comps) THEN Val(comps).stats ELSE None)
    IN  [listing_id       |-> listing.listing_id,
         value_score      |-> value_score,
         preference_score |-> preference_score,
         risk_assessment  |-> risk_assessment,
         final_score      |-> compute_final_score(value_score, preference_score,
                                                  risk_assessment)]

(***************************************************************************)
(* SpecScore: score_listing over bounded listings, attributes, comps       *)
(* groups and preference dicts.                                            *)
(***************************************************************************)
ScorePrices == {None, Some(0), Some(4), Some(10), Some(25)}
ScoreTextFlags ==
    {[PlainFlags EXCEPT !.urgency = u, !.suspicious_payment = sp,
                        !.text_length = IF poor THEN 10 ELSE 120,
                        !.images = IF poor THEN 0 ELSE 3,
                        !.has_warranty = w] :
        u \in BOOLEAN, sp \in BOOLEAN, poor \in BOOLEAN,
        w \in {None, Some(TRUE), Some(FALSE)}}
ScoreCracks == {None, Some(TRUE), Some(FALSE)}
ScoreConditions == {"ny", "defekt", "unknown"}
ScoreBatteries == {None, Some(0), Some(70)}

ScoreListings ==
    {Listing("a", "u", p, FALSE, Some("iPhone 15"), Some(128), c, hc, b, f) :
        p \in ScorePrices, c \in ScoreConditions, hc \in ScoreCracks,
        b \in ScoreBatteries, f \in ScoreTextFlags}

\* a comps group with the given prices, as build_comps_groups makes it
CompsGroupOf(prices) ==
    [comps_key        |-> CanonicalKey("phone", Some("iPhone 15"), Some("128GB"), None),
     listing_ids      |-> [i \in 1..Len(prices) |-> "x"],
     stats            |-> compute_comps_stats(prices),
     is_sufficient    |-> TRUE,
     relaxation_level |-> 0]

ScoreComps == {None, Some(CompsGroupOf(<<10>>)),
               Some(CompsGroupOf(<<8, 9, 10, 11, 12>>))}

ScorePreferences ==
    {Preferences(nc, c, mb, w, FALSE, FALSE) :
        nc \in {None, Some(TRUE)},
        c \in {None, Some("bra"), Some("utmarkt")},
        mb \in {None, Some(85)},
        w \in BOOLEAN}

InitScore ==
    /\ pc = "call"
    /\ call \in {[fn |-> "score_listing", listing |-> l, attrs |-> extract(l),
                  comps |-> g, preferences |-> p] :
                    l \in ScoreListings, g \in ScoreComps, p \in ScorePreferences}
    /\ ret = None
    /\ PipelineIdle

CallScoreListing ==
    /\ pc = "call"
    /\ call.fn = "score_listing"
    /\ ret' = Some(score_listing(call.listing, call.attrs, call.comps,
                                 call.preferences))
    /\ pc' = "return"
    /\ UNCHANGED <<seen_listings, call, pipeline_vars>>

NextScore == CallScoreListing

SpecScore == InitScore /\ [][NextScore]_vars

\* C1: whenever compute_preference_score reports hard_filters_passed = FALSE,
\* in particular when no_cracks is set and the listing has cracks,
\* score_listing returns final_score 0 whatever the value and risk scores are.
C1_HardFilterZeroesFinal ==
    (pc = "return" /\ call.fn = "score_listing") =>
        /\ ~Val(ret).preference_score.hard_filters_passed
              => Val(ret).final_score = R(0)
        /\ (call.preferences.no_cracks = Some(TRUE)
              /\ call.attrs.has_cracks = Some(TRUE))
              => /\ ~Val(ret).preference_score.hard_filters_passed
                 /\ Val(ret).final_score = R(0)

\* a cracked listing far below market whose only risk flag is the low price:
\* value score 100, yet final score 0
C1_Witness ==
    /\ pc = "return"
    /\ call.fn = "score_listing"
    /\ call.preferences.no_cracks = Some(TRUE)
    /\ call.attrs.has_cracks = Some(TRUE)
    /\ Val(ret).value_score.score = R(100)
    /\ Val(ret).risk_assessment.flags = {"unusually_low_price"}
    /\ ~Val(ret).preference_score.hard_filters_passed
    /\ Val(ret).final_score = R(0)

C3_InRange(x) == RLe(R(0), x) /\ RLe(x, R(100))

\* C3: the value, preference, risk and final scores returned by score_listing
\* all lie in [0, 100].
C3_ScoresInRange ==
    (pc = "return" /\ call.fn = "score_listing") =>
        /\ C3_InRange(Val(ret).value_score.score)
        /\ C3_InRange(Val(ret).preference_score.score)
        /\ C3_InRange(Val(ret).risk_assessment.score)
        /\ C3_InRange(Val(ret).final_score)

\* the risk weights add up to more than 100 and the raw value score exceeds 100
C3_Witness ==
    /\ pc = "return"
    /\ call.fn = "score_listing"
    /\ Val(ret).risk_assessment.score = R(100)
    /\ ~IsNone(call.comps)
    /\ SumSeq([i \in 1..Len(risk_flags(call.listing, Val(call.comps).stats)) |->
                 risk_weights[risk_flags(call.listing, Val(call.comps).stats)[i]]])
         > 100
    /\ Val(ret).value_score.score = R(100)
    /\ RLt(Rat(1, 2), Val(Val(ret).value_score.deal_delta))
    /\ Val(ret).preference_score.hard_filters_passed

(***************************************************************************)
(* pipeline.py: run_evaluation                                             *)
(***************************************************************************)
\* query_analyzer.should_filter_accessories
RECURSIVE should_filter_accessories(_)
should_filter_accessories(ls) ==
    IF ls = <<>> THEN <<>>
    ELSE IF ~Head(ls).accessory
         THEN <<Head(ls)>> \o should_filter_accessories(Tail(ls))
         ELSE should_filter_accessories(Tail(ls))

\* PhonePack.KEY_ATTRIBUTES and AttributePack.get_missing_key_attributes:
\* the key attributes whose typed field is None
KEY_ATTRIBUTES ==
    <<"model_variant", "storage_gb", "condition", "battery_health", "has_cracks">>

\* getattr(attrs, attr_name, None) is None; condition holds a Condition member,
\* UNKNOWN included, and is never None
field_is_none(attrs, attr_name) ==
    IF attr_name = "condition" THEN FALSE ELSE IsNone(attrs[attr_name])

RECURSIVE missing_of(_, _)
missing_of(names, attrs) ==
    IF names = <<>> THEN <<>>
    ELSE IF field_is_none(attrs, Head(names))
         THEN <<Head(names)>> \o missing_of(Tail(names), attrs)
         ELSE missing_of(Tail(names), attrs)

get_missing_key_attributes(attrs) == missing_of(KEY_ATTRIBUTES, attrs)

\* an element goes in front of the elements of equal score
RECURSIVE insert_desc_before_ties(_, _)
insert_desc_before_ties(x, s) ==
    IF s = <<>> THEN <<x>>
    ELSE IF RLe(Head(s)[4], x[4]) THEN <<x>> \o s
    ELSE <<Head(s)>> \o insert_desc_before_ties(x, Tail(s))

\* scored_listings.sort(key=lambda x: x[3], reverse=True): a stable sort, so
\* an element goes behind every element whose score is not smaller
RECURSIVE insert_desc(_, _)
insert_desc(x, s) ==
    IF s = <<>> THEN <<x>>
    ELSE IF RLt(Head(s)[4], x[4]) THEN <<x>> \o s
    ELSE <<Head(s)>> \o insert_desc(x, Tail(s))

RECURSIVE sort_by_final_score(_)
sort_by_final_score(s) ==
    IF s = <<>> THEN <<>>
    ELSE insert_desc(s[Len(s)], sort_by_final_score(SubSeq(s, 1, Len(s) - 1)))

\* scored_listings[:top_k]
slice_to(s, k) ==
    IF k >= 0 THEN SubSeq(s, 1, IF k < Len(s) THEN k ELSE Len(s))
    ELSE SubSeq(s, 1, IF Len(s) + k > 0 THEN Len(s) + k ELSE 0)

\* attr.replace('_', ' ')
replace_underscores(attr) ==
    CASE attr = "model_variant"  -> "model variant"
      [] attr = "storage_gb"     -> "storage gb"
      [] attr = "condition"      -> "condition"
      [] attr = "battery_health" -> "battery health"
      [] attr = "has_cracks"     -> "has cracks"

\* lines 134-138: one seller question per missing key attribute, the text
\* after the fixed prefix "Fraga saljaren om: "
checklist_of(missing) ==
    [i \in 1..Len(missing) |-> replace_underscores(missing[i])]

RankedListing(entry, rank, prefs, keys) ==
    LET listing == entry[1]
        attrs   == entry[2]
        comps   == entry[3]
    IN  [listing_id    |-> listing.listing_id,
         url           |-> listing.url,
         asking_price  |-> amount_of(listing),
         attributes    |-> attrs,
         canonical_key |-> IF listing.listing_id \in DOMAIN keys
                           THEN Some(keys[listing.listing_id]) ELSE None,
         scores        |-> score_listing(listing, attrs, comps, prefs),
         checklist     |-> checklist_of(get_missing_key_attributes(attrs)),
         rank          |-> rank]

data_quality_notes(groups, n_filtered, n_listings) ==
    (IF Len(groups) = 0 THEN {"no_comps_groups"} ELSE {})
    \cup (IF 2 * n_filtered > n_listings THEN {"many_filtered"} ELSE {})

(***************************************************************************)
(* Spec: one call of run_evaluation, stage by stage.                       *)
(***************************************************************************)
MaxListings == 3        \* longest input list
ListingIds == <<"L1", "L2", "L3", "L4", "L5">>
ListingUrls == <<"u1", "u2", "u3", "u4", "u5">>

\* what a listing of the input may look like: its id is its own, the id of
\* the first listing, or missing
ListingShapes ==
    {[id |-> "own", price |-> p, has_cracks |-> hc, accessory |-> FALSE] :
        p \in {Some(2), Some(3)}, hc \in {Some(TRUE), Some(FALSE)}}
    \cup {[id |-> "own", price |-> None, has_cracks |-> Some(FALSE), accessory |-> FALSE],
          [id |-> "first", price |-> Some(2), has_cracks |-> Some(FALSE), accessory |-> FALSE],
          [id |-> "none", price |-> Some(2), has_cracks |-> Some(FALSE), accessory |-> FALSE],
          [id |-> "own", price |-> Some(2), has_cracks |-> Some(FALSE), accessory |-> TRUE]}

ListingAt(i, shape) ==
    Listing(IF shape.id = "own" THEN ListingIds[i]
            ELSE IF shape.id = "first" THEN ListingIds[1] ELSE "",
            ListingUrls[i], shape.price, shape.accessory, Some("iPhone 15"),
            Some(128), "bra", shape.has_cracks, None, PlainFlags)

InputListings ==
    UNION {{[i \in 1..k |-> ListingAt(i, f[i])] : f \in [1..k -> ListingShapes]} :
              k \in 0..MaxListings}

InputPreferences == {Preferences(Some(TRUE), None, None, FALSE, FALSE, FALSE)}
InputMinSamples == {1, 2}
InputTopKs == {0, 2, 10}

Init ==
    /\ pc = "start"
    /\ call = None
    /\ ret = None
    /\ listings \in InputListings
    /\ preferences \in InputPreferences
    /\ min_comps_sample \in InputMinSamples
    /\ top_k = None
    /\ working_listings = <<>>
    /\ attributes_map = <<>>
    /\ canonical_keys = <<>>
    /\ comps_groups = <<>>
    /\ idx = 0
    /\ scored_listings = <<>>
    /\ filtered_out = 0
    /\ ranked_listings = <<>>
    /\ seen_listings = {}
    /\ result = None

\* lines 57-62: the accessory filter (filter_accessories may be off)
FilterAccessories ==
    /\ pc = "start"
    /\ \E filter_accessories \in BOOLEAN :
        working_listings' = IF filter_accessories
                            THEN should_filter_accessories(listings)
                            ELSE listings
    /\ filtered_out' = Len(listings) - Len(working_listings')
    /\ pc' = "extract"
    /\ UNCHANGED <<seen_listings, call, ret, listings, preferences, min_comps_sample, top_k,
                   attributes_map, canonical_keys, comps_groups, idx,
                   scored_listings, ranked_listings, result>>

\* lines 70-81: attribute extraction and canonical keys
ExtractAttributes ==
    /\ pc = "extract"
    /\ attributes_map' = extract_attributes_map(working_listings)
    /\ canonical_keys' = extract_canonical_keys(working_listings)
    /\ pc' = "build"
    /\ UNCHANGED <<seen_listings, call, ret, listings, preferences, min_comps_sample, top_k,
                   working_listings, comps_groups, idx, scored_listings,
                   filtered_out, ranked_listings, result>>

\* scoring starts on an index that lacks the last listing of the working set
BuildCompsGroupsPartial ==
    /\ pc = "build"
    /\ comps_groups' =
          build_comps_groups(SubSeq(working_listings, 1, Len(working_listings) - 1),
                             attributes_map, canonical_keys, min_comps_sample)
    /\ idx' = 1
    /\ pc' = "score"
    /\ UNCHANGED <<seen_listings, call, ret, listings, preferences, min_comps_sample, top_k,
                   working_listings, attributes_map, canonical_keys,
                   scored_listings, filtered_out, ranked_listings, result>>

\* lines 83-89: build_comps_groups over the working set
BuildCompsGroups ==
    /\ pc = "build"
    /\ comps_groups' = build_comps_groups(working_listings, attributes_map,
                                          canonical_keys, min_comps_sample)
    /\ idx' = 1
    /\ pc' = "score"
    /\ UNCHANGED <<seen_listings, call, ret, listings, preferences, min_comps_sample, top_k,
                   working_listings, attributes_map, canonical_keys,
                   scored_listings, filtered_out, ranked_listings, result>>

\* lines 99-113 for the listing at idx: its attrs, comps group and scores
current_listing == working_listings[idx]
current_attrs == attributes_map[current_listing.listing_id]
current_comps ==
    find_comps_for_listing(current_listing.listing_id,
                           canonical_keys[current_listing.listing_id],
                           comps_groups, min_comps_sample)[1]
current_scores ==
    score_listing(current_listing, current_attrs, current_comps, preferences)

\* lines 95-97: a listing without attributes is skipped
ScoreSkip ==
    /\ pc = "score"
    /\ idx <= Len(working_listings)
    /\ current_listing.listing_id \notin DOMAIN attributes_map
    /\ idx' = idx + 1
    /\ UNCHANGED <<seen_listings, pc, call, ret, listings, preferences, min_comps_sample,
                   top_k, working_listings, attributes_map, canonical_keys,
                   comps_groups, scored_listings, filtered_out,
                   ranked_listings, result>>

\* lines 115-118: a listing whose hard filters fail is counted and dropped
ScoreFilteredOut ==
    /\ pc = "score"
    /\ idx <= Len(working_listings)
    /\ current_listing.listing_id \in DOMAIN attributes_map
    /\ ~current_scores.preference_score.hard_filters_passed
    /\ filtered_out' = filtered_out + 1
    /\ idx' = idx + 1
    /\ UNCHANGED <<seen_listings, pc, call, ret, listings, preferences, min_comps_sample,
                   top_k, working_listings, attributes_map, canonical_keys,
                   comps_groups, scored_listings, ranked_listings, result>>

\* the listing is appended whether or not its hard filters passed
ScoreKeepUnfiltered ==
    /\ pc = "score"
    /\ idx <= Len(working_listings)
    /\ current_listing.listing_id \in DOMAIN attributes_map
    /\ scored_listings' =
          Append(scored_listings,
                 <<current_listing, current_attrs, current_comps,
                   current_scores.final_score>>)
    /\ idx' = idx + 1
    /\ UNCHANGED <<seen_listings, pc, call, ret, listings, preferences, min_comps_sample,
                   top_k, working_listings, attributes_map, canonical_keys,
                   comps_groups, filtered_out, ranked_listings, result>>

\* line 120: a surviving listing is appended with its final score
ScoreKeep ==
    /\ pc = "score"
    /\ idx <= Len(working_listings)
    /\ current_listing.listing_id \in DOMAIN attributes_map
    /\ current_scores.preference_score.hard_filters_passed
    /\ scored_listings' =
          Append(scored_listings,
                 <<current_listing, current_attrs, current_comps,
                   current_scores.final_score>>)
    /\ idx' = idx + 1
    /\ UNCHANGED <<seen_listings, pc, call, ret, listings, preferences, min_comps_sample,
                   top_k, working_listings, attributes_map, canonical_keys,
                   comps_groups, filtered_out, ranked_listings, result>>

\* lines 122-123: the loop is over, sort by final score
SortScored ==
    /\ pc = "score"
    /\ idx > Len(working_listings)
    /\ scored_listings' = sort_by_final_score(scored_listings)
    /\ pc' = "rank"
    /\ UNCHANGED <<seen_listings, call, ret, listings, preferences, min_comps_sample, top_k,
                   working_listings, attributes_map, canonical_keys,
                   comps_groups, idx, filtered_out, ranked_listings, result>>

\* enumerate without its start argument: ranks count from 0
BuildRankedFromZero ==
    /\ pc = "rank"
    /\ \E k \in InputTopKs :
        /\ top_k' = Some(k)
        /\ ranked_listings' =
              LET top == slice_to(scored_listings, k)
              IN  [r \in 1..Len(top) |->
                     RankedListing(top[r], r - 1, preferences, canonical_keys)]
    /\ pc' = "return"
    /\ UNCHANGED <<seen_listings, call, ret, listings, preferences, min_comps_sample,
                   working_listings, attributes_map, canonical_keys,
                   comps_groups, idx, scored_listings, filtered_out, result>>

\* lines 125-156: the ranked listings of the first top_k entries, for the
\* top_k the caller passed
BuildRanked ==
    /\ pc = "rank"
    /\ \E k \in InputTopKs :
        /\ top_k' = Some(k)
        /\ ranked_listings' =
              LET top == slice_to(scored_listings, k)
              IN  [r \in 1..Len(top) |->
                     RankedListing(top[r], r, preferences, canonical_keys)]
    /\ pc' = "return"
    /\ UNCHANGED <<seen_listings, call, ret, listings, preferences, min_comps_sample,
                   working_listings, attributes_map, canonical_keys,
                   comps_groups, idx, scored_listings, filtered_out, result>>

\* lines 168-186: the EvaluationResult
ReturnResult ==
    /\ pc = "return"
    /\ result' = Some([ranked_listings    |-> ranked_listings,
                       total_evaluated    |-> Len(scored_listings),
                       filtered_out       |-> filtered_out,
                       comps_groups       |-> comps_groups,
                       data_quality_notes |->
                           data_quality_notes(comps_groups, filtered_out,
                                              Len(listings))])
    /\ pc' = "done"
    /\ UNCHANGED <<seen_listings, call, ret, listings, preferences, min_comps_sample, top_k,
                   working_listings, attributes_map, canonical_keys,
                   comps_groups, idx, scored_listings, filtered_out,
                   ranked_listings>>

Next ==
    \/ FilterAccessories
    \/ ExtractAttributes
    \/ BuildCompsGroups
    \/ ScoreSkip
    \/ ScoreFilteredOut
    \/ ScoreKeep
    \/ SortScored
    \/ BuildRanked
    \/ ReturnResult

Spec == Init /\ [][Next]_vars

(***************************************************************************)
(* Properties of run_evaluation.                                           *)
(***************************************************************************)
\* positions of the working set whose listing was scored (it has an id) and
\* whose hard preference filters fail on the attributes looked up for it
FailsHardFilters(i) ==
    /\ working_listings[i].listing_id \in DOMAIN attributes_map
    /\ ~compute_preference_score(attributes_map[working_listings[i].listing_id],
                                 preferences).hard_filters_passed

Scoring == pc \in {"score", "rank", "return", "done"}

\* C2: a listing whose hard preference filters fail never appears in
\* ranked_listings, whatever top_k is, and each such listing adds exactly one
\* to filtered_out.
C2_FailedExcludedAndCounted ==
    /\ [](Scoring =>
            /\ \A i \in 1..Len(working_listings) :
                  FailsHardFilters(i) =>
                     /\ \A r \in 1..Len(ranked_listings) :
                           ranked_listings[r].url # working_listings[i].url
                     /\ \A e \in 1..Len(scored_listings) :
                           scored_listings[e][1].url # working_listings[i].url
            /\ filtered_out = (Len(listings) - Len(working_listings))
                 + Cardinality({i \in 1..(idx - 1) : FailsHardFilters(i)}))
    /\ [][(pc = "score" /\ idx <= Len(working_listings) /\ FailsHardFilters(idx))
             => (filtered_out' = filtered_out + 1
                   /\ scored_listings' = scored_listings)]_vars

\* the run is over: two listings failed the no_cracks filter, one survivor is
\* ranked although top_k leaves room for all three
C2_Witness ==
    /\ pc = "done"
    /\ Len(working_listings) = 3
    /\ Cardinality({i \in 1..3 : FailsHardFilters(i)}) = 2
    /\ Val(result).filtered_out = 2
    /\ top_k = Some(10)
    /\ Len(Val(result).ranked_listings) = 1

\* positions of the working set grouped under a key with a positive price
PricedWithKey(key) ==
    {i \in 1..Len(working_listings) :
        /\ working_listings[i].listing_id \in DOMAIN canonical_keys
        /\ canonical_keys[working_listings[i].listing_id] = key
        /\ ~IsNone(working_listings[i].price)
        /\ Val(working_listings[i].price) > 0}

\* the comps groups cover the prices of the entire working set
CompsIndexComplete ==
    \A i \in 1..Len(working_listings) :
        LET id == working_listings[i].listing_id
        IN  (id \in DOMAIN canonical_keys
               /\ i \in PricedWithKey(canonical_keys[id])) =>
            \E g \in 1..Len(comps_groups) :
                /\ comps_groups[g].comps_key = canonical_keys[id]
                /\ Val(comps_groups[g].stats).n
                     = Cardinality(PricedWithKey(canonical_keys[id]))

\* C9: no listing is resolved against comps or scored before
\* build_comps_groups has consumed the whole working set: from the first
\* scoring step on the comps groups cover every priced listing of the working
\* set and never change, and before that nothing is scored.
C9_CompsBuiltBeforeScoring ==
    /\ [](Scoring => CompsIndexComplete)
    /\ [](~Scoring => (scored_listings = <<>> /\ idx = 0
                         /\ ranked_listings = <<>>))
    /\ [][Scoring => comps_groups' = comps_groups]_vars

\* the first listing has been scored against a group that holds the price of
\* the last listing of the working set
C9_Witness ==
    /\ pc = "score"
    /\ idx = 2
    /\ Len(working_listings) = 3
    /\ Len(scored_listings) = 1
    /\ ~IsNone(scored_listings[1][3])
    /\ Val(Val(scored_listings[1][3]).stats).n = 3
    /\ working_listings[3].listing_id \in Range(Val(scored_listings[1][3]).listing_ids)

\* position in the input list of the listing with the given url
InputPosition(url) == CHOOSE i \in 1..Len(listings) : listings[i].url = url

\* C10: in ranked_listings final_score never increases with rank, and two
\* entries of equal final_score are in the order of the input list.
C10_RankedDescendingStable ==
    \A i, j \in 1..Len(ranked_listings) :
        i < j =>
            /\ RLe(ranked_listings[j].scores.final_score,
                   ranked_listings[i].scores.final_score)
            /\ ranked_listings[i].scores.final_score
                 = ranked_listings[j].scores.final_score
               => InputPosition(ranked_listings[i].url)
                    < InputPosition(ranked_listings[j].url)

\* three ranked listings: the first of the input is ranked last, the two in
\* front of it tie
C10_Witness ==
    /\ pc = "done"
    /\ Len(ranked_listings) = 3
    /\ ranked_listings[3].url = listings[1].url
    /\ ranked_listings[1].scores.final_score = ranked_listings[2].scores.final_score
    /\ RLt(ranked_listings[3].scores.final_score,
           ranked_listings[2].scores.final_score)

\* positions of the working set whose listing is scored and passes its hard
\* filters
Survivors ==
    {i \in 1..Len(working_listings) :
        /\ working_listings[i].listing_id \in DOMAIN attributes_map
        /\ ~FailsHardFilters(i)}

\* C11: for top_k >= 0 the ranked output has exactly min(top_k, number of
\* survivors) entries and its i-th entry has rank i.
C11_RanksContiguous ==
    (pc \in {"return", "done"} /\ Val(top_k) >= 0) =>
        /\ Len(ranked_listings)
             = (IF Val(top_k) < Cardinality(Survivors)
                THEN Val(top_k) ELSE Cardinality(Survivors))
        /\ \A i \in 1..Len(ranked_listings) : ranked_listings[i].rank = i

\* three survivors cut to the two best
C11_Witness ==
    /\ pc = "done"
    /\ top_k = Some(2)
    /\ Cardinality(Survivors) = 3
    /\ Len(Val(result).ranked_listings) = 2
    /\ Val(result).ranked_listings[2].rank = 2

(***************************************************************************)
(* SpecRerun: run_evaluation called twice in a row with the same           *)
(* arguments.  call holds the arguments the caller fixes for both calls,   *)
(* ret the EvaluationResult of the first call.                             *)
(***************************************************************************)
MaxRerunListings == 2   \* longest input list of the repeated run
RerunShapes ==
    {sh \in ListingShapes :
        /\ sh.id \in {"own", "none"}
        /\ ~IsNone(sh.price)
        /\ (sh.has_cracks = Some(TRUE) \/ sh.accessory) => sh.price = Some(2)}

RerunListings ==
    UNION {{[i \in 1..k |-> ListingAt(i, f[i])] : f \in [1..k -> RerunShapes]} :
              k \in 0..MaxRerunListings}

InitRerun ==
    /\ pc = "start"
    /\ call \in {[fn |-> "run_evaluation", filter_accessories |-> fa, top_k |-> k] :
                    fa \in BOOLEAN, k \in InputTopKs}
    /\ ret = None
    /\ listings \in RerunListings
    /\ preferences \in InputPreferences
    /\ min_comps_sample \in InputMinSamples
    /\ top_k = None
    /\ working_listings = <<>>
    /\ attributes_map = <<>>
    /\ canonical_keys = <<>>
    /\ comps_groups = <<>>
    /\ idx = 0
    /\ scored_listings = <<>>
    /\ filtered_out = 0
    /\ ranked_listings = <<>>
    /\ seen_listings = {}
    /\ result = None

\* the accessory filter with the caller's filter_accessories
RerunFilterAccessories ==
    /\ FilterAccessories
    /\ working_listings' = IF call.filter_accessories
                            THEN should_filter_accessories(listings)
                            ELSE listings

\* the ranked listings with the caller's top_k
RerunBuildRanked ==
    /\ BuildRanked
    /\ top_k' = Some(call.top_k)

\* scored_listings lives on between the calls, as a module-level list would
CallAgainKeepsScored ==
    /\ pc = "done"
    /\ IsNone(ret)
    /\ ret' = result
    /\ pc' = "start"
    /\ top_k' = None
    /\ working_listings' = <<>>
    /\ attributes_map' = <<>>
    /\ canonical_keys' = <<>>
    /\ comps_groups' = <<>>
    /\ idx' = 0
    /\ filtered_out' = 0
    /\ ranked_listings' = <<>>
    /\ result' = None
    /\ UNCHANGED <<seen_listings, call, listings, preferences, min_comps_sample, scored_listings>>

\* the first call has returned and the caller calls run_evaluation again
\* with the same arguments: every local of the function is fresh
CallAgain ==
    /\ pc = "done"
    /\ IsNone(ret)
    /\ ret' = result
    /\ pc' = "start"
    /\ top_k' = None
    /\ working_listings' = <<>>
    /\ attributes_map' = <<>>
    /\ canonical_keys' = <<>>
    /\ comps_groups' = <<>>
    /\ idx' = 0
    /\ scored_listings' = <<>>
    /\ filtered_out' = 0
    /\ ranked_listings' = <<>>
    /\ result' = None
    /\ UNCHANGED <<seen_listings, call, listings, preferences, min_comps_sample>>

NextRerun ==
    \/ RerunFilterAccessories
    \/ ExtractAttributes
    \/ BuildCompsGroups
    \/ ScoreSkip
    \/ ScoreFilteredOut
    \/ ScoreKeep
    \/ SortScored
    \/ RerunBuildRanked
    \/ ReturnResult
    \/ CallAgain

SpecRerun == InitRerun /\ [][NextRerun]_vars

NoSufficientComps(key) ==
    \A g \in 1..Len(comps_groups) :
        \/ comps_groups[g].comps_key.family # key.family
        \/ Val(comps_groups[g].stats).n < min_comps_sample

\* the neutral value score for a listing with this asking price and key
C13_Neutral(value_score, asking_price, key) ==
    /\ (IsNone(asking_price) \/ NoSufficientComps(key))
          => value_score.score = R(50)
    /\ NoSufficientComps(key) => value_score.comps_n = 0

\* C13: the value score is exactly 50 whenever the asking price is missing or
\* no sufficient comps group is available for the listing, and comps_n is 0
\* when no comps group resolves at all; this holds for the scores computed in
\* the scoring loop and for those of every ranked listing.
C13_NeutralWithoutComparison ==
    /\ (pc = "score" /\ idx <= Len(working_listings)
          /\ current_listing.listing_id \in DOMAIN attributes_map)
         => C13_Neutral(current_scores.value_score, current_listing.price,
                        canonical_keys[current_listing.listing_id])
    /\ \A r \in 1..Len(ranked_listings) :
          C13_Neutral(ranked_listings[r].scores.value_score,
                      ranked_listings[r].asking_price,
                      Val(ranked_listings[r].canonical_key))

\* two ranked listings, one priced and one without a price, and the only
\* comps group is too small: both get 50 and comps_n 0
C13_Witness ==
    /\ pc = "done"
    /\ min_comps_sample = 2
    /\ Len(comps_groups) = 1
    /\ Len(ranked_listings) = 2
    /\ \E r \in 1..2 : IsNone(ranked_listings[r].asking_price)
    /\ \E r \in 1..2 : ~IsNone(ranked_listings[r].asking_price)
    /\ \A r \in 1..2 :
          /\ NoSufficientComps(Val(ranked_listings[r].canonical_key))
          /\ ranked_listings[r].scores.value_score.score = R(50)
          /\ ranked_listings[r].scores.value_score.comps_n = 0

\* a ranked listing without a price that resolves to a sufficient comps group
C13_WitnessUnpriced ==
    /\ pc = "done"
    /\ \E r \in 1..Len(ranked_listings) :
          /\ IsNone(ranked_listings[r].asking_price)
          /\ ~NoSufficientComps(Val(ranked_listings[r].canonical_key))
          /\ ranked_listings[r].scores.value_score.score = R(50)
          /\ ranked_listings[r].scores.value_score.comps_n = 2

(***************************************************************************)
(* SpecValue: compute_value_score over bounded asking prices and comps     *)
(* groups, the group of prices 8000..12000 among them.                     *)
(***************************************************************************)
MaxCompsPrices == 3     \* longest price list of a comps group
MaxCompsPrice == 4      \* largest price of a comps group
MaxAskingPrice == 9     \* largest asking price
ScenarioPrices == <<8000, 9000, 10000, 11000, 12000>>
ValueAskingPrices ==
    {None, Some(9000)} \cup {Some(a) : a \in 0..MaxAskingPrice}
ValueComps ==
    {None, Some(CompsGroupOf(ScenarioPrices))}
    \cup {Some(CompsGroupOf(ps)) : ps \in SeqsUpTo(1..MaxCompsPrice, MaxCompsPrices)}

InitValue ==
    /\ pc = "call"
    /\ call \in {[fn |-> "compute_value_score", asking_price |-> a, comps |-> g] :
                    a \in ValueAskingPrices, g \in ValueComps}
    /\ ret = None
    /\ PipelineIdle

CallComputeValueScore ==
    /\ pc = "call"
    /\ call.fn = "compute_value_score"
    /\ ret' = Some(compute_value_score(call.asking_price, call.comps))
    /\ pc' = "return"
    /\ UNCHANGED <<seen_listings, call, pipeline_vars>>

NextValue == CallComputeValueScore

SpecValue == InitValue /\ [][NextValue]_vars

\* C14: for an asking price a > 0 and a comps group with median m > 0,
\* compute_value_score returns deal_delta = (m - a)/m and
\* score = clamp(50 + 100 * deal_delta, 0, 100); the group of prices 8000,
\* 9000, 10000, 11000, 12000 has median 10000 and an asking price of 9000
\* scores 60.
C14_DealDeltaAndScore ==
    (pc = "return" /\ call.fn = "compute_value_score"
       /\ ~IsNone(call.asking_price) /\ Val(call.asking_price) > 0
       /\ ~IsNone(call.comps) /\ ~IsNone(Val(call.comps).stats)
       /\ RLt(R(0), Val(Val(call.comps).stats).median_price)) =>
        LET a   == Val(call.asking_price)
            m   == Val(Val(call.comps).stats).median_price
            v   == Val(ret)
            d   == Val(v.deal_delta)
            raw == RAdd(R(50), RMul(R(100), d))
        IN  /\ ~IsNone(v.deal_delta)
            /\ d[1] * m[1] * m[2] = d[2] * m[2] * (m[1] - a * m[2])
            /\ v.score = (IF RLt(raw, R(0)) THEN R(0)
                          ELSE IF RLt(R(100), raw) THEN R(100) ELSE raw)
            /\ (a = 9000 /\ Val(call.comps) = CompsGroupOf(
                                <<8000, 9000, 10000, 11000, 12000>>))
                  => /\ m = R(10000)
                     /\ d = Rat(1, 10)
                     /\ v.score = R(60)

\* the listing priced 9000 against the group 8000..12000
C14_Witness ==
    /\ pc = "return"
    /\ call.fn = "compute_value_score"
    /\ call.asking_price = Some(9000)
    /\ ~IsNone(call.comps)
    /\ Val(call.comps).listing_ids = <<"x", "x", "x", "x", "x">>
    /\ Val(Val(call.comps).stats).min_price = R(8000)
    /\ Val(Val(call.comps).stats).max_price = R(12000)
    /\ Val(ret).score = R(60)
    /\ Val(ret).comps_n = 5

\* an asking price above the median whose raw score is strictly inside (0, 50)
C14_WitnessAbove ==
    /\ pc = "return"
    /\ call.fn = "compute_value_score"
    /\ ~IsNone(Val(ret).deal_delta)
    /\ RLt(Val(Val(ret).deal_delta), R(0))
    /\ RLt(R(0), Val(ret).score)
    /\ RLt(Val(ret).score, R(50))
    /\ Val(Val(call.comps).stats).median_price[2] = 2

(***************************************************************************)
(* SpecPref: compute_preference_score over bounded attributes and          *)
(* preference dicts.                                                       *)
(***************************************************************************)
Tristate == {None, Some(TRUE), Some(FALSE)}
PrefBatteries == {None, Some(70), Some(90)}

PrefAttrs ==
    {extract(Listing("a", "u", None, FALSE, Some("iPhone 15"), Some(128), c, hc, b,
                     [PlainFlags EXCEPT !.has_warranty = w, !.has_receipt = r,
                                        !.is_locked = l])) :
        c \in Conditions, hc \in Tristate, b \in PrefBatteries,
        w \in Tristate, r \in Tristate, l \in Tristate}

PrefPreferences ==
    {Preferences(nc, c, mb, w, r, u) :
        nc \in {Some(TRUE), Some(FALSE)},
        c \in {None, Some("som_ny"), Some("bra"), Some("unknown"), Some("utmarkt")},
        mb \in {None, Some(85)},
        w \in BOOLEAN, r \in BOOLEAN, u \in BOOLEAN}

InitPref ==
    /\ pc = "call"
    /\ call \in {[fn |-> "compute_preference_score", attrs |-> a, preferences |-> p] :
                    a \in PrefAttrs, p \in PrefPreferences}
    /\ ret = None
    /\ PipelineIdle

CallComputePreferenceScore ==
    /\ pc = "call"
    /\ call.fn = "compute_preference_score"
    /\ ret' = Some(compute_preference_score(call.attrs, call.preferences))
    /\ pc' = "return"
    /\ UNCHANGED <<seen_listings, call, pipeline_vars>>

NextPref == CallComputePreferenceScore

SpecPref == InitPref /\ [][NextPref]_vars

PrefReturned == pc = "return" /\ call.fn = "compute_preference_score"

\* how often an item occurs in a list
Count(s, x) == Cardinality({i \in 1..Len(s) : s[i] = x})

\* the scale NEW > LIKE_NEW > GOOD > OK > DEFECT
C15_Scale ==
    [c \in {"ny", "som_ny", "bra", "ok", "defekt"} |->
        CASE c = "ny" -> 5 [] c = "som_ny" -> 4 [] c = "bra" -> 3
          [] c = "ok" -> 2 [] c = "defekt" -> 1]

C15_CracksFail ==
    call.preferences.no_cracks = Some(TRUE) /\ call.attrs.has_cracks = Some(TRUE)

C15_ConditionFail ==
    /\ ~IsNone(call.preferences.condition)
    /\ Val(call.preferences.condition) \in DOMAIN C15_Scale
    /\ call.attrs.condition # "unknown"
    /\ C15_Scale[call.attrs.condition] < C15_Scale[Val(call.preferences.condition)]

\* C15: hard_filters_passed is false exactly when no_cracks is true and the
\* listing has cracks, or a minimum condition of the scale is configured and
\* the listing's known condition is strictly worse; with the filter
\* configured, an unknown crack status or UNKNOWN condition does not fail it
\* and adds one missing-info item; a minimum condition outside the scale
\* applies no filter and the function returns normally.
C15_HardFilters ==
    PrefReturned =>
        LET r == Val(ret)
            a == call.attrs
            p == call.preferences
        IN  /\ r.hard_filters_passed <=> ~(C15_CracksFail \/ C15_ConditionFail)
            /\ (p.no_cracks = Some(TRUE) /\ IsNone(a.has_cracks)) =>
                  /\ Count(r.failed_hard_filters, "no_cracks") = 0
                  /\ Count(r.missing_info_penalties, "Sprickstatus") = 1
            /\ (~IsNone(p.condition) /\ Val(p.condition) \in DOMAIN C15_Scale
                   /\ a.condition = "unknown") =>
                  /\ Count(r.failed_hard_filters, "condition") = 0
                  /\ Count(r.missing_info_penalties, "Skick") = 1
            /\ (~IsNone(p.condition) /\ Val(p.condition) \notin Conditions) =>
                  /\ Count(r.failed_hard_filters, "condition") = 0
                  /\ Count(r.missing_info_penalties, "Skick") = 0
                  /\ r.hard_filters_passed <=> ~C15_CracksFail

\* both filters configured, crack status and condition unknown: the listing
\* passes with two missing-info items
C15_Witness ==
    /\ PrefReturned
    /\ call.preferences.no_cracks = Some(TRUE)
    /\ call.preferences.condition = Some("bra")
    /\ IsNone(call.attrs.has_cracks)
    /\ call.attrs.condition = "unknown"
    /\ Val(ret).hard_filters_passed
    /\ Val(ret).missing_info_penalties = <<"Sprickstatus", "Skick">>

\* a listing in OK condition against the minimum GOOD fails the filter
C15_WitnessFail ==
    /\ PrefReturned
    /\ call.preferences.condition = Some("bra")
    /\ call.attrs.condition = "ok"
    /\ call.attrs.has_cracks = Some(FALSE)
    /\ ~Val(ret).hard_filters_passed
    /\ Val(ret).failed_hard_filters = <<"condition">>

\* the soft preferences the dict configures
C16_Configured ==
    {n \in {"battery", "warranty", "receipt", "unlocked"} :
        \/ n = "battery" /\ ~IsNone(call.preferences.min_battery_health)
        \/ n = "warranty" /\ call.preferences.has_warranty
        \/ n = "receipt" /\ call.preferences.has_receipt
        \/ n = "unlocked" /\ call.preferences.unlocked}

\* C16: when all hard filters pass the preference score is
\* clamp(A - 5k, 0, 100), A the arithmetic mean of the soft scores of the
\* configured soft preferences (80 when none is configured) and k the number
\* of missing-info items; when a hard filter fails the score is 0.
C16_PreferenceScore ==
    PrefReturned =>
        LET r   == Val(ret)
            n   == Len(r.soft_scores)
            k   == Len(r.missing_info_penalties)
            A   == IF n = 0 THEN R(80) ELSE RDiv(sum_values(r.soft_scores), R(n))
            raw == RSub(A, R(5 * k))
        IN  /\ {r.soft_scores[i][1] : i \in 1..n} = C16_Configured
            /\ n = Cardinality(C16_Configured)
            /\ r.hard_filters_passed =>
                  r.score = (IF RLt(raw, R(0)) THEN R(0)
                             ELSE IF RLt(R(100), raw) THEN R(100) ELSE raw)
            /\ ~r.hard_filters_passed => r.score = R(0)

\* three soft scores of different size and three missing-info items
C16_Witness ==
    /\ PrefReturned
    /\ Val(ret).hard_filters_passed
    /\ Len(Val(ret).soft_scores) = 3
    /\ Cardinality({Val(ret).soft_scores[i][2] : i \in 1..3}) = 3
    /\ Len(Val(ret).missing_info_penalties) = 3
    /\ RLt(R(0), Val(ret).score)
    /\ Val(ret).score[2] # 1

\* no soft preference configured: 80 less one missing-info item
C16_WitnessDefault ==
    /\ PrefReturned
    /\ Val(ret).soft_scores = <<>>
    /\ Val(ret).missing_info_penalties = <<"Sprickstatus">>
    /\ Val(ret).score = R(75)

\* the soft score the result holds under a name
SoftScoreOf(name) ==
    LET soft == Val(ret).soft_scores
    IN  soft[CHOOSE i \in 1..Len(soft) : soft[i][1] = name][2]

\* what the listing says about a boolean soft preference: Some(TRUE) when it
\* satisfies the preference, Some(FALSE) when it contradicts it, None when
\* the attribute is unknown
C17_Satisfies(name) ==
    CASE name = "warranty" -> call.attrs.has_warranty
      [] name = "receipt"  -> call.attrs.has_receipt
      [] name = "unlocked" -> IF IsNone(call.attrs.is_locked) THEN None
                              ELSE Some(~Val(call.attrs.is_locked))

C17_BooleanPrefs == C16_Configured \cap {"warranty", "receipt", "unlocked"}

\* C17 as stated: every configured boolean soft preference scores 100 when the
\* listing satisfies it, between 30 and 40 when the listing contradicts it
\* and 50 when the attribute is unknown.
C17_AsStated ==
    PrefReturned =>
        \A name \in C17_BooleanPrefs :
            /\ C17_Satisfies(name) = Some(TRUE) => SoftScoreOf(name) = R(100)
            /\ C17_Satisfies(name) = Some(FALSE) =>
                  (RLe(R(30), SoftScoreOf(name)) /\ RLe(SoftScoreOf(name), R(40)))
            /\ IsNone(C17_Satisfies(name)) => SoftScoreOf(name) = R(50)

\* C17 amended: every configured boolean soft preference scores 100 when the
\* listing satisfies it; when the listing contradicts it, 30 for has_warranty,
\* 40 for has_receipt and 20 for unlocked; when the attribute is unknown, 50
\* for has_warranty and has_receipt and 60 for unlocked.
C17_FixedSoftScores ==
    PrefReturned =>
        \A name \in C17_BooleanPrefs :
            /\ C17_Satisfies(name) = Some(TRUE) => SoftScoreOf(name) = R(100)
            /\ C17_Satisfies(name) = Some(FALSE) =>
                  SoftScoreOf(name) = (CASE name = "warranty" -> R(30)
                                         [] name = "receipt"  -> R(40)
                                         [] name = "unlocked" -> R(20))
            /\ IsNone(C17_Satisfies(name)) =>
                  SoftScoreOf(name) = (IF name = "unlocked" THEN R(60) ELSE R(50))

\* all three boolean preferences configured: a carrier-locked phone with a
\* warranty and no word on the receipt
C17_Witness ==
    /\ PrefReturned
    /\ C17_BooleanPrefs = {"warranty", "receipt", "unlocked"}
    /\ call.attrs.is_locked = Some(TRUE)
    /\ call.attrs.has_warranty = Some(TRUE)
    /\ IsNone(call.attrs.has_receipt)
    /\ SoftScoreOf("unlocked") = R(20)
    /\ SoftScoreOf("warranty") = R(100)
    /\ SoftScoreOf("receipt") = R(50)

\* C18: in build_comps_groups a listing that has a canonical key but no
\* positive asking price is still a member of its group (its id is in the
\* group's listing_ids), while the group's statistics and stats.n are
\* computed only from the members with a positive price.
C18_UnpricedStillMember ==
    (pc = "return" /\ call.fn = "build_comps_groups") =>
        \A g \in 1..Len(ret) :
            /\ \A i \in 1..Len(call.listings) :
                  LET id == call.listings[i].listing_id
                  IN  (/\ id \in DOMAIN call.canonical_keys
                       /\ call.canonical_keys[id] = ret[g].comps_key
                       /\ ~has_positive_price(call.listings[i]))
                      => id \in Range(ret[g].listing_ids)
            /\ Val(ret[g].stats).n = Cardinality(C5_PricedMembers(ret[g].comps_key))
            /\ RLt(R(0), Val(ret[g].stats).min_price)

(***************************************************************************)
(* SpecMissing: get_missing_key_attributes and the checklist built from    *)
(* it, over bounded attributes.                                            *)
(***************************************************************************)
MissingAttrs ==
    {extract(Listing("a", "u", None, FALSE, mv, sg, c, hc, b, PlainFlags)) :
        mv \in {None, Some("iPhone 15")}, sg \in {None, Some(0), Some(128)},
        c \in Conditions, hc \in Tristate, b \in PrefBatteries}

InitMissing ==
    /\ pc = "call"
    /\ call \in {[fn |-> "get_missing_key_attributes", attrs |-> a] :
                    a \in MissingAttrs}
    /\ ret = None
    /\ PipelineIdle

CallGetMissingKeyAttributes ==
    /\ pc = "call"
    /\ call.fn = "get_missing_key_attributes"
    /\ ret' = Some([missing   |-> get_missing_key_attributes(call.attrs),
                    checklist |-> checklist_of(get_missing_key_attributes(call.attrs))])
    /\ pc' = "return"
    /\ UNCHANGED <<seen_listings, call, pipeline_vars>>

NextMissing == CallGetMissingKeyAttributes

SpecMissing == InitMissing /\ [][NextMissing]_vars

\* the key attributes whose typed field is unresolved: left empty, or a
\* condition that is UNKNOWN
C19_Unresolved ==
    {name \in Range(KEY_ATTRIBUTES) :
        IF name = "condition" THEN call.attrs.condition = "unknown"
        ELSE IsNone(call.attrs[name])}

\* C19: get_missing_key_attributes returns exactly the names of KEY_ATTRIBUTES
\* whose typed field is unresolved (a field left empty, or a condition that is
\* UNKNOWN), and the checklist has one seller question per unresolved key
\* attribute and none for a resolved one.
C19_MissingAreUnresolved ==
    (pc = "return" /\ call.fn = "get_missing_key_attributes") =>
        /\ Range(Val(ret).missing) = C19_Unresolved
        /\ Len(Val(ret).missing) = Cardinality(C19_Unresolved)
        /\ Len(Val(ret).checklist) = Cardinality(C19_Unresolved)
        /\ Range(Val(ret).checklist)
             = {replace_underscores(name) : name \in C19_Unresolved}

(***************************************************************************)
(* llm_client.py: LLMClient._call and LLMClient.extract_attributes.  The   *)
(* outcome of a call is <<"return", value>> or <<"raise", exception>>.     *)
(***************************************************************************)
Return(value) == <<"return", value>>
Raise(exception) == <<"raise", exception>>

\* _call: chat.completions.create raises on an API or network error and on a
\* timeout; otherwise the message content, "" when it is empty
LLMClient_call(outcome) ==
    IF outcome.kind = "api_error" THEN Raise("APIError")
    ELSE IF outcome.kind = "timeout" THEN Raise("APITimeoutError")
    ELSE Return(outcome.content)

\* json.loads(response)
json_loads(response) ==
    IF response.json = "invalid" THEN Raise("JSONDecodeError")
    ELSE Return(response)

\* ExtractedAttribute(name=..., value=..., confidence=..., source="llm"):
\* name must be a string and confidence a number in [0, 1]
ExtractedAttribute(attr) ==
    LET name       == attr.name                  \* None: the JSON value null
        confidence == IF IsNone(attr.confidence) \* None: the key is absent
                      THEN Rat(1, 2) ELSE Val(attr.confidence)
    IN  IF IsNone(name) \/ RLt(confidence, R(0)) \/ RLt(R(1), confidence)
        THEN Raise("ValidationError")
        ELSE Return([name |-> Val(name), value |-> attr.value,
                     confidence |-> confidence, source |-> "llm"])

\* the loop over data.get("attributes", []); attr.get on an item that is no
\* dict raises AttributeError
RECURSIVE build_attributes(_, _)
build_attributes(items, attributes) ==
    IF items = <<>> THEN Return(attributes)
    ELSE IF ~Head(items).is_dict THEN Raise("AttributeError")
    ELSE LET made == ExtractedAttribute(Head(items))
         IN  IF made[1] = "raise" THEN made
             ELSE build_attributes(Tail(items), Append(attributes, made[2]))

\* the body of the try block
extract_attributes_try(outcome) ==
    LET response == LLMClient_call(outcome)
    IN  IF response[1] = "raise" THEN response
        ELSE LET data == json_loads(response[2])
             IN  IF data[1] = "raise" THEN data
                 ELSE IF data[2].json # "object" THEN Raise("AttributeError")
                 ELSE IF data[2].attributes = None THEN Return(<<>>)
                 ELSE IF Val(data[2].attributes).is_null THEN Raise("TypeError")
                 ELSE build_attributes(Val(data[2].attributes).items, <<>>)

\* except (json.JSONDecodeError, ValidationError): return []
extract_attributes(outcome) ==
    LET tried == extract_attributes_try(outcome)
    IN  IF tried[1] = "raise" /\ tried[2] \in {"JSONDecodeError", "ValidationError"}
        THEN Return(<<>>)
        ELSE tried

(***************************************************************************)
(* SpecLLM: extract_attributes over the outcomes of the LLM call.          *)
(***************************************************************************)
MaxLLMAttributes == 3   \* longest "attributes" list of a response
\* an item of the "attributes" list: a string, or a dict
LLMItem(is_dict, name, value, confidence) ==
    [is_dict |-> is_dict, name |-> name, value |-> value, confidence |-> confidence]

LLMItems ==
    {LLMItem(FALSE, None, "", None),
     LLMItem(TRUE, Some("color"), "svart", Some(Rat(9, 10))),
     LLMItem(TRUE, Some("has_cracks"), "false", None),
     LLMItem(TRUE, Some("storage_gb"), "128", Some(R(2))),
     LLMItem(TRUE, None, "x", Some(Rat(1, 2)))}

\* the content of a response: no JSON at all (the empty content too), a JSON
\* array, or a JSON object whose "attributes" is absent, null or a list
LLMResponse(json, attributes) == [json |-> json, attributes |-> attributes]

LLMResponses ==
    {LLMResponse("invalid", None), LLMResponse("array", None),
     LLMResponse("object", None),
     LLMResponse("object", Some([is_null |-> TRUE, items |-> <<>>]))}
    \cup {LLMResponse("object", Some([is_null |-> FALSE, items |-> items])) :
              items \in SeqsUpTo(LLMItems, MaxLLMAttributes)}

LLMOutcomes ==
    {[kind |-> k, content |-> LLMResponse("invalid", None)] :
        k \in {"api_error", "timeout"}}
    \cup {[kind |-> "response", content |-> r] : r \in LLMResponses}

InitLLM ==
    /\ pc = "call"
    /\ call \in {[fn |-> "extract_attributes", outcome |-> o] : o \in LLMOutcomes}
    /\ ret = None
    /\ PipelineIdle

CallExtractAttributes ==
    /\ pc = "call"
    /\ call.fn = "extract_attributes"
    /\ ret' = extract_attributes(call.outcome)
    /\ pc' = IF ret'[1] = "raise" THEN "raised" ELSE "return"
    /\ UNCHANGED <<seen_listings, call, pipeline_vars>>

NextLLM == CallExtractAttributes

SpecLLM == InitLLM /\ [][NextLLM]_vars

\* the LLM call succeeded: a response whose JSON is an object with a list of
\* well-formed attributes (or without the list)
C20_Success ==
    /\ call.outcome.kind = "response"
    /\ call.outcome.content.json = "object"
    /\ ~IsNone(call.outcome.content.attributes) =>
          /\ ~Val(call.outcome.content.attributes).is_null
          /\ \A i \in 1..Len(Val(call.outcome.content.attributes).items) :
                LET item == Val(call.outcome.content.attributes).items[i]
                IN  /\ item.is_dict
                    /\ ~IsNone(item.name)
                    /\ (IsNone(item.confidence)
                          \/ (RLe(R(0), Val(item.confidence))
                                /\ RLe(Val(item.confidence), R(1))))

\* C20: for every outcome of the underlying LLM call (success, malformed or
\* schema-invalid response, API or network error, timeout)
\* extract_attributes returns a list of attributes and raises nothing; the
\* list is empty when the call failed.
C20_NeverRaises ==
    (call.fn = "extract_attributes" /\ pc # "call") =>
        /\ pc = "return"
        /\ ret[1] = "return"
        /\ ~C20_Success => ret[2] = <<>>

(***************************************************************************)
(* ai_filter.py: ai_filter_listings.  A listing is its listing_id as       *)
(* str(listing.get("listing_id", "")) reads it; the frame of the call      *)
(* holds the loop variable i and the list relevant_listings.               *)
(***************************************************************************)
\* an element r of data["results"]: has_keys is FALSE when "id" or "relevant"
\* is not a key of r; id_is_str is FALSE when the JSON value of "id" is a
\* number
AiResult(has_keys, id, id_is_str, relevant) ==
    [has_keys |-> has_keys, id |-> id, id_is_str |-> id_is_str, relevant |-> relevant]

\* results_map = {r["id"]: r["relevant"] for r in results} and
\* results_map.get(listing_id, default): the last entry of a key wins, and a
\* number is never equal to the string listing_id
results_map_get(results, listing_id, default) ==
    LET hits == {n \in 1..Len(results) :
                    results[n].id_is_str /\ results[n].id = listing_id}
    IN  IF hits = {} THEN default
        ELSE results[CHOOSE n \in hits : \A m \in hits : m <= n].relevant

\* the body of the try block for one batch: the listings to append
ai_filter_batch_try(batch, outcome) ==
    LET response == LLMClient_call(outcome)
    IN  IF response[1] = "raise" THEN response
        ELSE LET data == json_loads(response[2])
             IN  IF data[1] = "raise" THEN data
                 ELSE IF data[2].json # "object" THEN Raise("AttributeError")
                 ELSE LET results == IF IsNone(data[2].results) THEN <<>>
                                     ELSE Val(data[2].results)
                          is_relevant(listing_id) ==
                              results_map_get(results, listing_id, FALSE)
                      IN  IF \E n \in 1..Len(results) : ~results[n].has_keys
                          THEN Raise("KeyError")
                          ELSE Return(SelectSeq(batch, is_relevant))

\* except Exception: relevant_listings.extend(batch)
ai_filter_batch(batch, outcome) ==
    LET tried == ai_filter_batch_try(batch, outcome)
    IN  IF tried[1] = "raise" THEN batch ELSE tried[2]

(***************************************************************************)
(* SpecAiFilter: ai_filter_listings, one step per batch, the outcome of    *)
(* the LLM call of a batch chosen freely.                                  *)
(***************************************************************************)
MaxAiListings == 3   \* longest input list
MaxAiResults == 2    \* longest "results" list of a response
AiListingIds == {"1", "2"}
AiBatchSizes == {1, 2}

AiResults ==
    {AiResult(FALSE, "", TRUE, FALSE), AiResult(TRUE, "1", FALSE, TRUE)}
    \cup {AiResult(TRUE, id, TRUE, relevant) :
              id \in AiListingIds, relevant \in BOOLEAN}

\* the content of a response: no JSON, a JSON array, or a JSON object whose
\* "results" is absent or a list
AiResponse(json, results) == [json |-> json, results |-> results]

AiResponses ==
    {AiResponse("invalid", None), AiResponse("array", None),
     AiResponse("object", None)}
    \cup {AiResponse("object", Some(results)) :
              results \in SeqsUpTo(AiResults, MaxAiResults)}

AiOutcomes ==
    {[kind |-> k, content |-> AiResponse("invalid", None)] :
        k \in {"api_error", "timeout"}}
    \cup {[kind |-> "response", content |-> r] : r \in AiResponses}

InitAiFilter ==
    /\ pc = "call"
    /\ call \in {[fn |-> "ai_filter_listings", listings |-> ls, batch_size |-> b,
                  i |-> 0, relevant_listings |-> <<>>, outcome |-> None] :
                    ls \in SeqsUpTo(AiListingIds, MaxAiListings), b \in AiBatchSizes}
    /\ ret = None
    /\ PipelineIdle

\* if not listings: return []
AiFilterEmpty ==
    /\ pc = "call"
    /\ call.fn = "ai_filter_listings"
    /\ call.listings = <<>>
    /\ ret' = Some(<<>>)
    /\ pc' = "return"
    /\ UNCHANGED <<seen_listings, call, pipeline_vars>>

\* batch = listings[i:i + batch_size]
ai_batch(frame) ==
    SubSeq(frame.listings, frame.i + 1,
           IF frame.i + frame.batch_size < Len(frame.listings)
           THEN frame.i + frame.batch_size ELSE Len(frame.listings))

\* one iteration of for i in range(0, len(listings), batch_size)
AiFilterBatch ==
    /\ pc = "call"
    /\ call.fn = "ai_filter_listings"
    /\ call.listings # <<>>
    /\ call.i < Len(call.listings)
    /\ \E outcome \in AiOutcomes :
          call' = [call EXCEPT
                      !.i = @ + call.batch_size,
                      !.relevant_listings = @ \o ai_filter_batch(ai_batch(call), outcome),
                      !.outcome = Some(outcome)]
    /\ UNCHANGED <<seen_listings, pc, ret, pipeline_vars>>

\* return relevant_listings
AiFilterReturn ==
    /\ pc = "call"
    /\ call.fn = "ai_filter_listings"
    /\ call.listings # <<>>
    /\ call.i >= Len(call.listings)
    /\ ret' = Some(call.relevant_listings)
    /\ pc' = "return"
    /\ UNCHANGED <<seen_listings, call, pipeline_vars>>

NextAiFilter == AiFilterEmpty \/ AiFilterBatch \/ AiFilterReturn

SpecAiFilter == InitAiFilter /\ [][NextAiFilter]_vars

\* the response of the batch says of the listing that it is not relevant
C21_MarkedNotRelevant(outcome, listing_id) ==
    /\ outcome.kind = "response"
    /\ outcome.content.json = "object"
    /\ ~IsNone(outcome.content.results)
    /\ \E n \in 1..Len(Val(outcome.content.results)) :
          LET r == Val(outcome.content.results)[n]
          IN  r.has_keys /\ r.id = listing_id /\ ~r.relevant

\* C21: relevance filtering is fail-open: a batch removes a listing only when
\* the response of the LLM explicitly marks that listing as not relevant; a
\* failed call, a malformed response or a listing missing from the response
\* keep the listing.
C21_FailOpen ==
    [][AiFilterBatch =>
          LET batch == ai_batch(call)
              kept  == SubSeq(call'.relevant_listings,
                              Len(call.relevant_listings) + 1,
                              Len(call'.relevant_listings))
          IN  \A n \in 1..Len(batch) :
                 batch[n] \notin Range(kept) =>
                     C21_MarkedNotRelevant(Val(call'.outcome), batch[n])]_vars

(***************************************************************************)
(* storage.py: the table seen_listings, mark_listings_seen and             *)
(* filter_new_listings.  A url is three pieces: its first 255 characters   *)
(* (the prefix the unique key unique_watch_url compares), characters 256   *)
(* to 1024, and the characters after the 1024th.                           *)
(***************************************************************************)
Url(prefix, middle, rest) == [prefix |-> prefix, middle |-> middle, rest |-> rest]

\* listing.get("url", "") of a listing without url
no_url == Url("", "", "")

\* url[:1024]
url_1024(url) == [url EXCEPT !.rest = ""]

SeenRow(watch_id, listing_id, url) ==
    [watch_id |-> watch_id, listing_id |-> listing_id, url |-> url]

\* UNIQUE KEY unique_watch_listing (watch_id, listing_id) and UNIQUE KEY
\* unique_watch_url (watch_id, url(255)); NULL never equals NULL
duplicate_key(table, row) ==
    \E r \in table :
        /\ r.watch_id = row.watch_id
        /\ \/ ~IsNone(row.listing_id) /\ r.listing_id = row.listing_id
           \/ r.url.prefix = row.url.prefix

\* INSERT IGNORE INTO seen_listings (watch_id, listing_id, url)
insert_ignore(table, row) ==
    IF duplicate_key(table, row) THEN table ELSE table \cup {row}

\* the loop of mark_listings_seen: <<table, new_count>>
RECURSIVE mark_loop(_, _, _, _)
mark_loop(table, watch_id, ls, new_count) ==
    IF ls = <<>> THEN <<table, new_count>>
    ELSE LET listing_id == Head(ls).listing_id
             url        == Head(ls).url
             inserted   == insert_ignore(table,
                               SeenRow(watch_id, listing_id, url_1024(url)))
         IN  IF IsNone(listing_id) /\ url = no_url
             THEN mark_loop(table, watch_id, Tail(ls), new_count)
             ELSE mark_loop(inserted, watch_id, Tail(ls),
                            IF inserted # table THEN new_count + 1 ELSE new_count)

mark_listings_seen(table, watch_id, ls) == mark_loop(table, watch_id, ls, 0)

\* SELECT listing_id ... WHERE watch_id = %s AND listing_id IS NOT NULL
get_seen_listing_ids(table, watch_id) ==
    {Val(r.listing_id) : r \in {q \in table : q.watch_id = watch_id /\ ~IsNone(q.listing_id)}}

\* SELECT url ... WHERE watch_id = %s
get_seen_urls(table, watch_id) ==
    {r.url : r \in {q \in table : q.watch_id = watch_id}}

filter_new_listings(table, watch_id, ls) ==
    LET seen_ids  == get_seen_listing_ids(table, watch_id)
        seen_urls == get_seen_urls(table, watch_id)
        is_new(listing) ==
            /\ ~(~IsNone(listing.listing_id) /\ Val(listing.listing_id) \in seen_ids)
            /\ ~(listing.url # no_url /\ listing.url \in seen_urls)
    IN  SelectSeq(ls, is_new)

(***************************************************************************)
(* SpecSeen: any sequence of mark_listings_seen and filter_new_listings    *)
(* calls on two watches.                                                   *)
(***************************************************************************)
MaxSeenListings == 2   \* longest list of a call
WatchIds == {"w1", "w2"}
SeenIds == {None, Some("1"), Some("2")}
SeenUrls == {no_url, Url("u1", "", ""), Url("u1", "x", "y")}
SeenListing(listing_id, url) == [listing_id |-> listing_id, url |-> url]
SeenListings == {SeenListing(id, url) : id \in SeenIds, url \in SeenUrls}
SeenCalls ==
    {[fn |-> fn, watch_id |-> w, listings |-> ls] :
        fn \in {"mark_listings_seen", "filter_new_listings"},
        w \in WatchIds, ls \in SeqsUpTo(SeenListings, MaxSeenListings)}

no_call == [fn |-> "", watch_id |-> "", listings |-> <<>>]

InitSeen ==
    /\ pc = "idle"
    /\ call = no_call
    /\ ret = None
    /\ PipelineIdle

\* app.py calls one of the two functions on the results of a watch
CallStorage ==
    /\ pc = "idle"
    /\ call' \in SeenCalls
    /\ pc' = "call"
    /\ UNCHANGED <<ret, seen_listings, pipeline_vars>>

MarkListingsSeen ==
    /\ pc = "call"
    /\ call.fn = "mark_listings_seen"
    /\ LET marked == mark_listings_seen(seen_listings, call.watch_id, call.listings)
       IN  /\ seen_listings' = marked[1]
           /\ ret' = Some(marked[2])
    /\ pc' = "return"
    /\ UNCHANGED <<call, pipeline_vars>>

FilterNewListings ==
    /\ pc = "call"
    /\ call.fn = "filter_new_listings"
    /\ ret' = Some(filter_new_listings(seen_listings, call.watch_id, call.listings))
    /\ pc' = "return"
    /\ UNCHANGED <<call, seen_listings, pipeline_vars>>

\* the caller goes on; the table stays
ReturnStorage ==
    /\ pc = "return"
    /\ call.fn \in {"mark_listings_seen", "filter_new_listings"}
    /\ pc' = "idle"
    /\ call' = no_call
    /\ ret' = None
    /\ UNCHANGED <<seen_listings, pipeline_vars>>

NextSeen == CallStorage \/ MarkListingsSeen \/ FilterNewListings \/ ReturnStorage

SpecSeen == InitSeen /\ [][NextSeen]_vars

\* the listing is none of the new listings of the watch
C22_Seen(table, watch_id, listing) ==
    filter_new_listings(table, watch_id, <<listing>>) = <<>>

\* the listings of ls, in order, whose listing_id is not among the recorded
\* ids and whose url is not among the recorded urls of the watch
C22_Unrecorded(table, watch_id, ls) ==
    LET unrecorded(listing) ==
            /\ IsNone(listing.listing_id)
                 \/ Val(listing.listing_id) \notin get_seen_listing_ids(table, watch_id)
            /\ listing.url = no_url
                 \/ listing.url \notin get_seen_urls(table, watch_id)
    IN  SelectSeq(ls, unrecorded)

\* C22: filter_new_listings returns, in input order, exactly the listings
\* whose listing_id and url are not recorded for the watch so far; and a
\* listing marked as seen in one run is never returned as new in a later run
\* of the same watch (it is seen after the mark, and what is seen stays seen).
C22_SeenNeverNew ==
    [][/\ FilterNewListings =>
             Val(ret') = C22_Unrecorded(seen_listings, call.watch_id, call.listings)
       /\ MarkListingsSeen =>
             \A n \in 1..Len(call.listings) :
                 C22_Seen(seen_listings', call.watch_id, call.listings[n])
       /\ \A w \in WatchIds, listing \in SeenListings :
             C22_Seen(seen_listings, w, listing) => C22_Seen(seen_listings', w, listing)]_vars

(***************************************************************************)
(* v2/pipeline/filter.py: CandidateFilter.  A location is the sequence of  *)
(* its characters, a title the sequence of its words; a price is a whole   *)
(* number of kronor.                                                       *)
(***************************************************************************)
\* str.lower() on the characters in use
lower_char(c) ==
    CASE c = "S" -> "s" [] c = "O" -> "o" [] c = "L" -> "l"
      [] c = "M" -> "m" [] c = "A" -> "a" [] OTHER -> c

lower(text) == [n \in 1..Len(text) |-> lower_char(text[n])]

\* sub in text
contains(text, sub) ==
    \E n \in 0..(Len(text) - Len(sub)) : SubSeq(text, n + 1, n + Len(sub)) = sub

\* the truth value of an Optional[float]: None and 0 are false
truthy(number) == ~IsNone(number) /\ Val(number) # 0

\* lines 75-96: the listing passes every hard constraint; unknown shipping
\* passes as well
passes_hard_constraints_unknown_shipping(listing, prefs) ==
    /\ ~(truthy(prefs.max_price) /\ truthy(listing.price)
           /\ Val(listing.price) > Val(prefs.max_price))
    /\ ~(truthy(prefs.min_price) /\ truthy(listing.price)
           /\ Val(listing.price) < Val(prefs.min_price))
    /\ ~(prefs.locations # <<>> /\ ~IsNone(listing.location)
           /\ Val(listing.location) # <<>>
           /\ ~\E n \in 1..Len(prefs.locations) :
                  contains(lower(Val(listing.location)), lower(prefs.locations[n])))
    /\ ~(prefs.require_shipping /\ listing.shipping_available = Some(FALSE))

\* lines 75-96: the listing passes every hard constraint
passes_hard_constraints(listing, prefs) ==
    /\ ~(truthy(prefs.max_price) /\ truthy(listing.price)
           /\ Val(listing.price) > Val(prefs.max_price))
    /\ ~(truthy(prefs.min_price) /\ truthy(listing.price)
           /\ Val(listing.price) < Val(prefs.min_price))
    /\ ~(prefs.locations # <<>> /\ ~IsNone(listing.location)
           /\ Val(listing.location) # <<>>
           /\ ~\E n \in 1..Len(prefs.locations) :
                  contains(lower(Val(listing.location)), lower(prefs.locations[n])))
    /\ ~(prefs.require_shipping /\ listing.shipping_available # Some(TRUE))

apply_hard_constraints(ls, prefs) ==
    LET passes(listing) == passes_hard_constraints(listing, prefs)
    IN  SelectSeq(ls, passes)

\* _price_sanity_filter with outlier_threshold = 3.0; np.percentile
\* interpolates linearly between the sorted prices
price_sanity_filter(ls) ==
    LET has_price(listing) == truthy(listing.price) /\ Val(listing.price) > 0
        priced      == SelectSeq(ls, has_price)
        prices      == sorted([n \in 1..Len(priced) |-> Val(priced[n].price)])
        q1          == quartile(prices, 1)
        q3          == quartile(prices, 3)
        iqr         == RSub(q3, q1)
        lower_bound == RMax(R(0), RSub(q1, RMul(R(3), iqr)))
        upper_bound == RAdd(q3, RMul(R(3), iqr))
        keeps(listing) ==
            \/ IsNone(listing.price)
            \/ /\ RLe(lower_bound, R(Val(listing.price)))
               /\ RLe(R(Val(listing.price)), upper_bound)
    IN  IF Len(ls) < 5 THEN ls
        ELSE IF priced = <<>> THEN ls
        ELSE SelectSeq(ls, keeps)

\* str.lower() and len() on the words in use
lower_word(word) == IF word = "iPhone" THEN "iphone" ELSE word
len_word(word) == CASE word = "iphone" -> 6 [] word = "15" -> 2 [] OTHER -> 4

\* _tokenize: re.findall(r'\w+', text.lower())
tokenize(words) == [n \in 1..Len(words) |-> lower_word(words[n])]

RECURSIVE sum_weights(_, _)
sum_weights(terms, text) ==
    IF terms = <<>> THEN 0
    ELSE (IF Head(terms) \in Range(text) THEN len_word(Head(terms)) ELSE 0)
           + sum_weights(Tail(terms), text)

\* _calculate_relevance_score; search_text and title.lower() are the title
\* in lower case (the listings carry no description)
calculate_relevance_score(listing, query_terms) ==
    LET text         == tokenize(listing.title)
        total_weight == SumSeq([n \in 1..Len(query_terms) |-> len_word(query_terms[n])])
        matched      == sum_weights(query_terms, text)
        in_title     == Cardinality({n \in 1..Len(query_terms) : query_terms[n] \in Range(text)})
        title_bonus  == Rat(in_title, 10)
        price_bonus  == IF truthy(listing.price) THEN Rat(1, 10) ELSE R(0)
        image_bonus  == RMin(Rat(1, 10), Rat(listing.image_count * 2, 100))
    IN  IF query_terms = <<>> THEN Rat(1, 2)
        ELSE IF total_weight = 0 THEN R(0)
        ELSE RMin(R(1), RAdd(RAdd(Rat(matched, total_weight), title_bonus),
                             RAdd(price_bonus, image_bonus)))

score_relevance(ls, query) ==
    [n \in 1..Len(ls) |-> <<ls[n], calculate_relevance_score(ls[n], tokenize(query))>>]

\* scored.sort(key=lambda x: x[1], reverse=True): a stable sort
RECURSIVE insert_by_relevance(_, _)
insert_by_relevance(x, s) ==
    IF s = <<>> THEN <<x>>
    ELSE IF RLt(Head(s)[2], x[2]) THEN <<x>> \o s
    ELSE <<Head(s)>> \o insert_by_relevance(x, Tail(s))

RECURSIVE sort_by_relevance(_)
sort_by_relevance(s) ==
    IF s = <<>> THEN <<>>
    ELSE insert_by_relevance(s[Len(s)], sort_by_relevance(SubSeq(s, 1, Len(s) - 1)))

CandidateFilter_filter(max_candidates, ls, prefs) ==
    LET filtered   == price_sanity_filter(apply_hard_constraints(ls, prefs))
        scored     == sort_by_relevance(score_relevance(filtered, prefs.user_query))
        candidates == slice_to(scored, max_candidates)
    IN  IF ls = <<>> THEN <<>>
        ELSE [n \in 1..Len(candidates) |-> candidates[n][1]]

(***************************************************************************)
(* SpecCandidates: CandidateFilter.filter over lists of listings that      *)
(* differ in price, location, shipping and title.                          *)
(***************************************************************************)
MaxCandidateListings == 5   \* longest input list
NormalizedListing(listing_id, title, price, location, shipping_available, image_count) ==
    [listing_id |-> listing_id, title |-> title, price |-> price, location |-> location,
     shipping_available |-> shipping_available, image_count |-> image_count]

Solna == <<"S", "o", "l", "n", "a">>
Malmo == <<"M", "a", "l", "m", "o">>

CandidateListings ==
    {NormalizedListing("1", <<"iPhone", "15">>, Some(12), Some(Solna), Some(TRUE), 3),
     NormalizedListing("2", <<"iphone">>, Some(0), Some(Malmo), Some(FALSE), 0),
     NormalizedListing("3", <<"iPhone", "skal">>, None, None, None, 1),
     NormalizedListing("4", <<"samsung">>, Some(100), Some(<<>>), Some(TRUE), 6)}

PreferenceProfile(user_query, max_price, min_price, locations, require_shipping) ==
    [user_query |-> user_query, max_price |-> max_price, min_price |-> min_price,
     locations |-> locations, require_shipping |-> require_shipping]

CandidatePreferences ==
    {PreferenceProfile(<<"iPhone", "15">>, window[1], window[2], locations, shipping) :
        window \in {<<None, None>>, <<Some(50), None>>, <<Some(0), Some(50)>>},
        locations \in {<<>>, <<<<"S", "O", "L">>, <<"x">>>>},
        shipping \in BOOLEAN}
    \ {PreferenceProfile(<<"iPhone", "15">>, None, None, <<>>, TRUE),
        PreferenceProfile(<<"iPhone", "15">>, Some(50), None, <<>>, FALSE),
        PreferenceProfile(<<"iPhone", "15">>, Some(0), Some(50), <<>>, TRUE)}

CandidateLimits == {0, 2, 50}

InitCandidates ==
    /\ pc = "call"
    /\ call \in {[fn |-> "CandidateFilter.filter", max_candidates |-> k,
                  listings |-> ls, preferences |-> prefs] :
                    k \in CandidateLimits,
                    ls \in SeqsUpTo(CandidateListings, MaxCandidateListings),
                    prefs \in CandidatePreferences}
    /\ ret = None
    /\ PipelineIdle

CallCandidateFilter ==
    /\ pc = "call"
    /\ call.fn = "CandidateFilter.filter"
    /\ ret' = Some(CandidateFilter_filter(call.max_candidates, call.listings,
                                          call.preferences))
    /\ pc' = "return"
    /\ UNCHANGED <<call, seen_listings, pipeline_vars>>

NextCandidates == CallCandidateFilter

SpecCandidates == InitCandidates /\ [][NextCandidates]_vars

\* the hard constraints as the claim states them; a price of 0 and an empty
\* location stand for a missing one, and locations are compared without case
C23_Satisfies(listing, prefs) ==
    /\ (truthy(listing.price) /\ truthy(prefs.max_price)) =>
           Val(listing.price) <= Val(prefs.max_price)
    /\ (truthy(listing.price) /\ truthy(prefs.min_price)) =>
           Val(listing.price) >= Val(prefs.min_price)
    /\ (~IsNone(listing.location) /\ Val(listing.location) # <<>>
          /\ prefs.locations # <<>>) =>
           \E loc \in Range(prefs.locations) :
               contains(lower(Val(listing.location)), lower(loc))
    /\ prefs.require_shipping => listing.shipping_available = Some(TRUE)

round_to(x, scale) ==
    LET n     == x[1] * scale
        d     == x[2]
        floor == n \div d
        twice == 2 * (n - floor * d)
    IN  Rat(IF twice < d THEN floor
            ELSE IF twice > d THEN floor + 1
            ELSE IF floor % 2 = 0 THEN floor ELSE floor + 1,
            scale)

\* delta as the asking price over the market
value_delta_above(asking, expected) == RSub(asking, expected)

\* delta = expected - asking (positive = below market = good deal)
value_delta(asking, expected) == RSub(expected, asking)

\* listing.price is None or a float; market_stats carries median and
\* is_sufficient
calculate_value_score(price, market_stats) ==
    LET asking        == Val(price)
        expected      == market_stats.median
        delta         == value_delta(asking, expected)
        delta_percent == IF RLt(R(0), expected)
                         THEN RMul(RDiv(delta, expected), R(100)) ELSE R(0)
        score         == RMax(R(0), RMin(R(100),
                             RAdd(R(50), RDiv(RMul(delta_percent, R(50)), R(30)))))
    IN  IF IsNone(price) \/ Val(price) = R(0) \/ ~market_stats.is_sufficient
        THEN [score |-> R(50),
              asking_price |-> IF IsNone(price) THEN R(0) ELSE Val(price),
              expected_price |-> expected,
              deal_delta |-> R(0), deal_delta_percent |-> R(0)]
        ELSE [score |-> round_to(score, 10),
              asking_price |-> asking,
              expected_price |-> expected,
              deal_delta |-> round_to(delta, 1),
              deal_delta_percent |-> round_to(delta_percent, 10)]

(***************************************************************************)
(* SpecValueV2: _calculate_value_score over small prices and medians (a    *)
(* median of an even number of prices may end in .5) and over prices close *)
(* to a market median of 10000.                                            *)
(***************************************************************************)
MaxV2Price == 6   \* largest small price and median
MarketPrices == <<9000, 9990, 9997, 9998, 9999, 10000, 10001, 12000, 13000>>

V2Prices ==
    {None} \cup {Some(R(p)) : p \in 0..MaxV2Price}
           \cup {Some(R(MarketPrices[n])) : n \in 1..Len(MarketPrices)}

V2Medians ==
    {Rat(m, 2) : m \in 0..(2 * MaxV2Price)} \cup {R(10000), R(13000)}

InitValueV2 ==
    /\ pc = "call"
    /\ call \in {[fn |-> "_calculate_value_score", price |-> p,
                  market_stats |-> [median |-> m, is_sufficient |-> ok]] :
                    p \in V2Prices, m \in V2Medians, ok \in BOOLEAN}
    /\ ret = None
    /\ PipelineIdle

CallCalculateValueScore ==
    /\ pc = "call"
    /\ call.fn = "_calculate_value_score"
    /\ ret' = Some(calculate_value_score(call.price, call.market_stats))
    /\ pc' = "return"
    /\ UNCHANGED <<call, seen_listings, pipeline_vars>>

NextValueV2 == CallCalculateValueScore

SpecValueV2 == InitValueV2 /\ [][NextValueV2]_vars

\* the asking price is positive and strictly below the median of sufficient
\* market stats
C24_BelowMarket ==
    /\ pc = "return"
    /\ call.fn = "_calculate_value_score"
    /\ ~IsNone(call.price)
    /\ RLt(R(0), Val(call.price))
    /\ RLt(Val(call.price), call.market_stats.median)
    /\ call.market_stats.is_sufficient

\* C24 as stated: for every listing whose asking price is positive and
\* strictly below the median of sufficient market stats, the value score has
\* deal_delta > 0 and score > 50.
C24_AsStated ==
    C24_BelowMarket =>
        /\ RLt(R(0), Val(ret).deal_delta)
        /\ RLt(R(50), Val(ret).score)

\* C24 (amended): for every listing whose asking price is positive and
\* strictly below the median of sufficient market stats, the value score has
\* deal_delta >= 0 and score >= 50 (the rounding of both takes a small
\* advantage to the neutral value).
C24_NotWorseThanNeutral ==
    C24_BelowMarket =>
        /\ RLe(R(0), Val(ret).deal_delta)
        /\ RLe(R(50), Val(ret).score)

\* asking 12000 against a median of 13000: 1000 below market, a good deal
C24_Witness ==
    /\ C24_BelowMarket
    /\ call.price = Some(R(12000))
    /\ call.market_stats.median = R(13000)
    /\ Val(ret).deal_delta = R(1000)
    /\ RLt(R(50), Val(ret).score)

\* asking 9999 against a median of 10000: the score is rounded to 50.0
C24_WitnessRounded ==
    /\ C24_BelowMarket
    /\ call.price = Some(R(9999))
    /\ call.market_stats.median = R(10000)
    /\ Val(ret).deal_delta = R(1)
    /\ Val(ret).score = R(50)

(***************************************************************************)
(* SpecKey: create_canonical_key over every storage size up to             *)
(* MaxStorageGb and the sizes 1024 and 2048, every condition, and          *)
(* attributes that differ in what the key does not use.                    *)
(***************************************************************************)
MaxStorageGb == 520   \* largest storage size below 1 TB
KeyStorages == {None} \cup {Some(gb) : gb \in (0..MaxStorageGb) \cup {1024, 2048}}

KeyAttrs ==
    {extract(Listing(id, "u", None, FALSE, mv, sg, c, hc, None, PlainFlags)) :
        id \in {"a", "b"}, mv \in {None, Some("iPhone 15 Pro")}, sg \in KeyStorages,
        c \in Conditions, hc \in {None, Some(TRUE)}}

InitKey ==
    /\ pc = "call"
    /\ call \in {[fn |-> "create_canonical_key", attrs |-> a] : a \in KeyAttrs}
    /\ ret = None
    /\ PipelineIdle

CallCreateCanonicalKey ==
    /\ pc = "call"
    /\ call.fn = "create_canonical_key"
    /\ ret' = Some(create_canonical_key(call.attrs))
    /\ pc' = "return"
    /\ UNCHANGED <<call, seen_listings, pipeline_vars>>

NextKey == CallCreateCanonicalKey

SpecKey == InitKey /\ [][NextKey]_vars

\* the bucket of a storage size: the smallest of the bounds 64, 128, 256, 512
\* that contains it, the bucket above 512 otherwise; a storage of 0 GB is
\* unresolved like a missing one
C25_StorageBucket(storage_gb) ==
    LET bounds == {b \in {64, 128, 256, 512} : Val(storage_gb) <= b}
        name   == [b \in {64, 128, 256, 512} |->
                      CASE b = 64 -> "64GB" [] b = 128 -> "128GB"
                        [] b = 256 -> "256GB" [] b = 512 -> "512GB"]
    IN  IF IsNone(storage_gb) \/ Val(storage_gb) = 0 THEN None
        ELSE IF bounds = {} THEN Some("1TB+")
        ELSE Some(name[CHOOSE b \in bounds : \A c \in bounds : b <= c])

C25_ConditionBucket(condition) ==
    CASE condition \in {"ny", "som_ny"} -> Some("new")
      [] condition = "bra"              -> Some("good")
      [] condition \in {"ok", "defekt"} -> Some("fair")
      [] condition = "unknown"          -> None

Pattern(alternatives, bounded, value) ==
    [alternatives |-> alternatives, bounded |-> bounded, value |-> value]

\* a model pattern of one word sequence, without \b
M(words, value) == Pattern({words}, FALSE, value)

\* a condition pattern of one word sequence, between \b and \b
C(words, value) == Pattern({words}, TRUE, value)

IPHONE_PATTERNS ==
    <<M(<<"iphone", "15", "pro", "max">>, "iPhone 15 Pro Max"),
      M(<<"iphone", "15", "pro">>, "iPhone 15 Pro"),
      M(<<"iphone", "15", "plus">>, "iPhone 15 Plus"),
      M(<<"iphone", "15">>, "iPhone 15"),
      M(<<"iphone", "14", "pro", "max">>, "iPhone 14 Pro Max"),
      M(<<"iphone", "14", "pro">>, "iPhone 14 Pro"),
      M(<<"iphone", "14", "plus">>, "iPhone 14 Plus"),
      M(<<"iphone", "14">>, "iPhone 14"),
      M(<<"iphone", "13", "pro", "max">>, "iPhone 13 Pro Max"),
      M(<<"iphone", "13", "pro">>, "iPhone 13 Pro"),
      M(<<"iphone", "13", "mini">>, "iPhone 13 Mini"),
      M(<<"iphone", "13">>, "iPhone 13"),
      M(<<"iphone", "12", "pro", "max">>, "iPhone 12 Pro Max"),
      M(<<"iphone", "12", "pro">>, "iPhone 12 Pro"),
      M(<<"iphone", "12", "mini">>, "iPhone 12 Mini"),
      M(<<"iphone", "12">>, "iPhone 12"),
      M(<<"iphone", "11", "pro", "max">>, "iPhone 11 Pro Max"),
      M(<<"iphone", "11", "pro">>, "iPhone 11 Pro"),
      M(<<"iphone", "11">>, "iPhone 11"),
      M(<<"iphone", "se", "3">>, "iPhone SE 3"),
      M(<<"iphone", "se", "2">>, "iPhone SE 2"),
      M(<<"iphone", "se", "2022">>, "iPhone SE 3"),
      M(<<"iphone", "se", "2020">>, "iPhone SE 2"),
      M(<<"iphone", "se">>, "iPhone SE"),
      Pattern({<<"iphone", "xr">>, <<"iphone", "xs">>}, FALSE, "iPhone XR/XS"),
      M(<<"iphone", "x">>, "iPhone X"),
      M(<<"iphone", "8", "plus">>, "iPhone 8 Plus"),
      M(<<"iphone", "8">>, "iPhone 8")>>

\* the second pattern is samsung\s*galaxy\s*s24\s*\+ or plus
SAMSUNG_PATTERNS ==
    <<M(<<"samsung", "galaxy", "s24", "ultra">>, "Samsung Galaxy S24 Ultra"),
      Pattern({<<"samsung", "galaxy", "s24", "+">>, <<"plus">>}, FALSE,
              "Samsung Galaxy S24+"),
      M(<<"samsung", "galaxy", "s24">>, "Samsung Galaxy S24"),
      M(<<"samsung", "galaxy", "s23", "ultra">>, "Samsung Galaxy S23 Ultra"),
      M(<<"samsung", "galaxy", "s23">>, "Samsung Galaxy S23"),
      M(<<"samsung", "galaxy", "s22">>, "Samsung Galaxy S22"),
      M(<<"samsung", "galaxy", "s21">>, "Samsung Galaxy S21"),
      M(<<"galaxy", "s24">>, "Samsung Galaxy S24"),
      M(<<"galaxy", "s23">>, "Samsung Galaxy S23")>>

\* the dict CONDITION_PATTERNS in insertion order
CONDITION_PATTERNS ==
    <<C(<<"ny">>, "ny"),
      C(<<"som", "ny">>, "som_ny"),
      C(<<"nyskick">>, "som_ny"),
      C(<<"felfri">>, "som_ny"),
      C(<<"bra", "skick">>, "bra"),
      C(<<"gott", "skick">>, "bra"),
      C(<<"ok", "skick">>, "ok"),
      C(<<"använd">>, "ok"),
      C(<<"defekt">>, "defekt"),
      C(<<"trasig">>, "defekt"),
      C(<<"sönder">>, "defekt")>>

\* word.startswith(prefix) on the words in use
starts_with(word, prefix) ==
    \/ word = prefix
    \/ <<word, prefix>> \in {<<"2022", "2">>, <<"2020", "2">>,
                             <<"xr", "x">>, <<"xs", "x">>}

\* the words match the text from position pos on
match_at(words, bounded, text, pos) ==
    /\ pos + Len(words) - 1 <= Len(text)
    /\ \A k \in 1..Len(words) :
          IF k < Len(words) \/ bounded THEN text[pos + k - 1] = words[k]
          ELSE starts_with(text[pos + k - 1], words[k])

\* re.search(pattern, text, re.IGNORECASE) finds a match
re_search(pattern, text) ==
    \E words \in pattern.alternatives, pos \in 1..Len(text) :
        match_at(words, pattern.bounded, text, pos)

\* the index of the first pattern of the table that matches, 0 for none
first_match(table, text) ==
    LET hits == {n \in 1..Len(table) : re_search(table[n], text)}
    IN  IF hits = {} THEN 0 ELSE CHOOSE n \in hits : \A m \in hits : n <= m

\* PhonePack._extract_model: the model name, None without a match
extract_model(text) ==
    LET iphone  == first_match(IPHONE_PATTERNS, text)
        samsung == first_match(SAMSUNG_PATTERNS, text)
    IN  IF iphone > 0 THEN Some(IPHONE_PATTERNS[iphone].value)
        ELSE IF samsung > 0 THEN Some(SAMSUNG_PATTERNS[samsung].value)
        ELSE None

\* AttributePack.extract_condition: the condition, UNKNOWN without a match
extract_condition(text) ==
    LET found == first_match(CONDITION_PATTERNS, text)
    IN  IF found > 0 THEN CONDITION_PATTERNS[found].value ELSE "unknown"

(***************************************************************************)
(* SpecPatterns: the two extractors over every text of up to MaxTextWords  *)
(* words.                                                                  *)
(***************************************************************************)
MaxTextWords == 4
TextWords == {"iphone", "15", "pro", "max", "se", "2022", "säljes",
              "som", "ny", "like", "new"}

InitPatterns ==
    /\ pc = "call"
    /\ call \in {[fn |-> fn, text |-> text] :
                    fn \in {"_extract_model", "extract_condition"},
                    text \in SeqsUpTo(TextWords, MaxTextWords)}
    /\ ret = None
    /\ PipelineIdle

CallExtractModel ==
    /\ pc = "call"
    /\ call.fn = "_extract_model"
    /\ ret' = Some(extract_model(call.text))
    /\ pc' = "return"
    /\ UNCHANGED <<call, seen_listings, pipeline_vars>>

CallExtractCondition ==
    /\ pc = "call"
    /\ call.fn = "extract_condition"
    /\ ret' = Some(extract_condition(call.text))
    /\ pc' = "return"
    /\ UNCHANGED <<call, seen_listings, pipeline_vars>>

NextPatterns == CallExtractModel \/ CallExtractCondition

SpecPatterns == InitPatterns /\ [][NextPatterns]_vars

\* pattern a is more specific than pattern b: b matches whatever a accepts,
\* and a does not match everything b accepts
C26_MoreSpecific(a, b) ==
    /\ \A words \in a.alternatives : re_search(b, words)
    /\ \E words \in b.alternatives : ~re_search(a, words)

\* no pattern of the table that matches the text is more specific than the
\* first one that matches
C26_MostSpecificFirst(table, text) ==
    LET first == first_match(table, text)
    IN  \A n \in 1..Len(table) :
            (n > first /\ re_search(table[n], text)) =>
                ~C26_MoreSpecific(table[n], table[first])

\* the text contains the words
C26_Says(text, words) == \E pos \in 1..Len(text) : match_at(words, TRUE, text, pos)

\* C26: in every ordered recognizer table (phone model patterns, condition
\* patterns) a more specific pattern is tried before a more generic one that
\* matches the same text, and the first match wins: 'iphone 15 pro max'
\* yields 'iPhone 15 Pro Max', and 'som ny' or 'like new' yields LIKE_NEW.
C26_SpecificBeforeGeneric ==
    pc = "return" =>
        /\ call.fn = "_extract_model" =>
              /\ C26_MostSpecificFirst(IPHONE_PATTERNS, call.text)
              /\ C26_MostSpecificFirst(SAMSUNG_PATTERNS, call.text)
              /\ C26_Says(call.text, <<"iphone", "15", "pro", "max">>) =>
                    Val(ret) = Some("iPhone 15 Pro Max")
        /\ call.fn = "extract_condition" =>
              /\ C26_MostSpecificFirst(CONDITION_PATTERNS, call.text)
              /\ (C26_Says(call.text, <<"som", "ny">>)
                    \/ C26_Says(call.text, <<"like", "new">>)) =>
                    Val(ret) = "som_ny"

(***************************************************************************)
(* v1/blocket_client.py: BlocketClient.search and _search_page.  The API   *)
(* is a list of answers for the pages 1, 2, ... and one answer for every   *)
(* page beyond the list; the frame of search holds page, all_listings and  *)
(* the pages requested from the API so far.                                *)
(***************************************************************************)
\* the answer of the API to the requests of one page: failures requests
\* raise a ConnectionError, the next one gives the result
ApiAnswer(failures, kind, docs, is_end) ==
    [failures |-> failures, kind |-> kind, docs |-> docs, is_end |-> is_end]

\* self.api.search(query, page=page)
api_answer(api, page) ==
    IF page <= Len(api.pages) THEN api.pages[page] ELSE api.beyond

\* @retry(stop=stop_after_attempt(3)): the number of requests of the page
attempts(answer) == IF answer.failures < 3 THEN answer.failures + 1 ELSE 3

\* _search_page: the third failure leaves the retry as an exception, and an
\* exception of another type is not retried
search_page(answer) ==
    IF answer.failures >= 3 THEN Raise("RetryError")
    ELSE IF answer.kind = "error" THEN Raise("Exception")
    ELSE Return(answer)

\* listings = result.get("docs", []) for a dict, [] otherwise
docs_of(page_result) ==
    IF page_result.kind = "dict" THEN page_result.docs ELSE <<>>

\* the loop goes on after a page without listings
page_ends_on_flag_only(page_result) ==
    IF page_result.kind = "dict"
    THEN IF IsNone(page_result.is_end) THEN TRUE ELSE Val(page_result.is_end)
    ELSE TRUE

\* is_end or not listings, with is_end = True when metadata does not say
page_ends(page_result) ==
    \/ IF page_result.kind = "dict"
       THEN IF IsNone(page_result.is_end) THEN TRUE ELSE Val(page_result.is_end)
       ELSE TRUE
    \/ docs_of(page_result) = <<>>

(***************************************************************************)
(* SpecSearch: search against every API of up to MaxApiPages listed pages. *)
(* The loop is one thread that runs on, hence the weak fairness.           *)
(***************************************************************************)
MaxApiPages == 2       \* pages the API lists before its answer repeats
MaxFetchedPages == 5   \* cap on page for an API that never ends
ApiAnswers ==
    {ApiAnswer(f, "dict", docs, is_end) :
        f \in {0, 1}, docs \in {<<>>, <<"a">>},
        is_end \in {None, Some(TRUE), Some(FALSE)}}
    \cup {ApiAnswer(3, "dict", <<>>, None), ApiAnswer(0, "not_dict", <<>>, None),
          ApiAnswer(0, "error", <<>>, None)}

Apis ==
    {[pages |-> pages, beyond |-> beyond] :
        pages \in SeqsUpTo(ApiAnswers, MaxApiPages),
        beyond \in {ApiAnswer(0, "dict", <<>>, Some(TRUE)),
                    ApiAnswer(0, "dict", <<"a">>, Some(FALSE))}}

SearchMaxPages == {None, Some(0), Some(1), Some(2), Some(3)}

InitSearch ==
    /\ pc = "call"
    /\ call \in {[fn |-> "search", api |-> api, max_pages |-> max_pages,
                  page |-> 1, all_listings |-> <<>>, requested |-> <<>>] :
                    api \in Apis, max_pages \in SearchMaxPages}
    /\ ret = None
    /\ PipelineIdle

\* max_pages is None or page <= max_pages
loop_condition(frame) ==
    IF IsNone(frame.max_pages) THEN TRUE ELSE frame.page <= Val(frame.max_pages)

\* one iteration of the while loop
SearchFetchPage ==
    /\ pc = "call"
    /\ call.fn = "search"
    /\ loop_condition(call)
    /\ call.page <= MaxFetchedPages
    /\ LET answer    == api_answer(call.api, call.page)
           fetched   == search_page(answer)
           requested == call.requested \o [n \in 1..attempts(answer) |-> call.page]
           collected == call.all_listings \o docs_of(fetched[2])
       IN  IF fetched[1] = "raise"
           THEN /\ call' = [call EXCEPT !.requested = requested]
                /\ ret' = fetched
                /\ pc' = "raised"
           ELSE IF page_ends(fetched[2])
           THEN /\ call' = [call EXCEPT !.requested = requested,
                                        !.all_listings = collected]
                /\ ret' = Return(collected)
                /\ pc' = "return"
           ELSE /\ call' = [call EXCEPT !.requested = requested,
                                        !.all_listings = collected,
                                        !.page = @ + 1]
                /\ UNCHANGED <<pc, ret>>
    /\ UNCHANGED <<seen_listings, pipeline_vars>>

\* the loop condition fails: return all_listings
SearchReturn ==
    /\ pc = "call"
    /\ call.fn = "search"
    /\ ~loop_condition(call)
    /\ ret' = Return(call.all_listings)
    /\ pc' = "return"
    /\ UNCHANGED <<call, seen_listings, pipeline_vars>>

NextSearch == SearchFetchPage \/ SearchReturn

SpecSearch == InitSearch /\ [][NextSearch]_vars /\ WF_vars(NextSearch)

\* the pages requested, without the repetitions of a retried page
C27_Pages == {call.requested[n] : n \in 1..Len(call.requested)}

\* the response of the page reports is_end_of_paging, is empty or is no dict
C27_LastPage(answer) ==
    \/ answer.kind # "dict"
    \/ answer.docs = <<>>
    \/ answer.is_end = Some(TRUE)

\* the API reports the end of paging at some page
C27_ApiEnds ==
    \/ \E n \in 1..Len(call.api.pages) : C27_LastPage(call.api.pages[n])
    \/ C27_LastPage(call.api.beyond)

\* C27: search requests the pages 1, 2, 3, ... in increasing order, requests
\* no page after the first page whose response reports is_end_of_paging, is
\* empty or is not a dict, requests at most max_pages pages when max_pages is
\* given, and terminates whenever the API eventually reports the end of
\* paging or max_pages is set.
C27_Paging ==
    /\ [](call.fn = "search" =>
            /\ \E k \in 0..(MaxFetchedPages + 1) : C27_Pages = 1..k
            /\ \A n \in 1..(Len(call.requested) - 1) :
                  call.requested[n] <= call.requested[n + 1]
            /\ \A p \in C27_Pages, q \in C27_Pages :
                  (p < q) => ~C27_LastPage(api_answer(call.api, p))
            /\ ~IsNone(call.max_pages) => Cardinality(C27_Pages) <= Val(call.max_pages))
    /\ (call.fn = "search" /\ (C27_ApiEnds \/ ~IsNone(call.max_pages)))
           ~> (pc \in {"return", "raised"})

\* three pages fetched from an API that reports the end at the third
C27_Witness ==
    /\ pc = "return"
    /\ call.fn = "search"
    /\ IsNone(call.max_pages)
    /\ call.requested = <<1, 2, 3>>
    /\ C27_LastPage(api_answer(call.api, 3))
    /\ Len(ret[2]) = 2

\* max_pages stops the search of an API that never ends
C27_WitnessMaxPages ==
    /\ pc = "return"
    /\ call.fn = "search"
    /\ call.max_pages = Some(3)
    /\ ~C27_ApiEnds
    /\ C27_Pages = {1, 2, 3}

(***************************************************************************)
(* The counters of the EvaluationResult.                                   *)
(***************************************************************************)
\* C28: after run_evaluation every input listing is accounted for exactly
\* once: total_evaluated + filtered_out equals the number of input listings
C28_AllAccounted ==
    pc = "done" =>
        Val(result).total_evaluated + Val(result).filtered_out = Len(listings)

(***************************************************************************)
(* The groups of build_comps_groups as a partition of the priced listings. *)
(***************************************************************************)
\* the listings of the call carry pairwise distinct ids
C29_DistinctIds ==
    \A i, j \in 1..Len(call.listings) :
        call.listings[i].listing_id = call.listings[j].listing_id => i = j

\* the groups that hold the id among their listing_ids
C29_GroupsOf(id) == {g \in 1..Len(ret) : id \in Range(ret[g].listing_ids)}

\* the unrelaxed key of a listing, from its own attributes
C29_OwnKey(listing) == create_canonical_key(extract(listing))

\* C29: for input listings with distinct ids, build_comps_groups returns
\* groups with pairwise distinct canonical keys; every listing that has a
\* canonical key and a positive price is a member of exactly one group, the
\* one whose key equals the listing's own unrelaxed key; no group is empty,
\* and each group's stats.n equals the number of ids in its listing_ids.
C29_GroupsPartition ==
    (pc = "return" /\ call.fn = "build_comps_groups" /\ C29_DistinctIds) =>
        /\ \A g, h \in 1..Len(ret) :
              ret[g].comps_key = ret[h].comps_key => g = h
        /\ \A i \in 1..Len(call.listings) :
              LET listing == call.listings[i]
              IN  (/\ listing.listing_id \in DOMAIN call.canonical_keys
                   /\ has_positive_price(listing))
                  => \E g \in 1..Len(ret) :
                        /\ C29_GroupsOf(listing.listing_id) = {g}
                        /\ ret[g].comps_key = C29_OwnKey(listing)
                        /\ ret[g].relaxation_level = 0
        /\ \A g \in 1..Len(ret) :
              /\ Len(ret[g].listing_ids) > 0
              /\ ~IsNone(ret[g].stats)
              /\ Val(ret[g].stats).n = Len(ret[g].listing_ids)

\* three listings with distinct ids: two priced ones with a key each in a
\* group of their own, one without an id
C29_Witness ==
    /\ pc = "return"
    /\ call.fn = "build_comps_groups"
    /\ C29_DistinctIds
    /\ Len(call.listings) = 3
    /\ \A i \in 1..3 : has_positive_price(call.listings[i])
    /\ Len(ret) = 2
    /\ ret[1].listing_ids = <<"a">>
    /\ ret[2].listing_ids = <<"b">>

\* two priced listings with distinct ids and the same key share one group
C29_WitnessShared ==
    /\ pc = "return"
    /\ call.fn = "build_comps_groups"
    /\ C29_DistinctIds
    /\ Len(ret) = 1
    /\ ret[1].listing_ids = <<"a", "b">>
    /\ Val(ret[1].stats).n = 2

(***************************************************************************)
(* SpecLevels: relax_comps_key applied to two keys level after level, and  *)
(* the outer loop of find_comps_for_listing one level at a time.           *)
(***************************************************************************)
MaxLevelGroups == 2     \* longest list of comps groups
LevelKeys == {CanonicalKey(f, m, s, c) :
                f \in Families,
                m \in {Some("iPhone 15"), Some("iPhone 15 Pro")},
                s \in {Some("128GB"), Some("256GB")},
                c \in {None, Some("new")}}
LevelMinSamples == {2, 3}

\* the groups of the list whose relaxed key agrees with the relaxed target
matching_groups(canonical_key, all_groups, level) ==
    {g \in 1..Len(all_groups) :
        keys_agree(relax_comps_key(all_groups[g].comps_key, level),
                   relax_comps_key(canonical_key, level))}

InitLevels ==
    /\ pc = "call"
    /\ call \in {[fn |-> "relax_comps_key", a |-> a, b |-> b, levels |-> <<>>,
                  relaxed_a |-> a, relaxed_b |-> b] : a, b \in Keys}
           \cup {[fn |-> "find_comps_for_listing", canonical_key |-> k,
                  all_groups |-> gs, min_sample |-> ms, level |-> 0,
                  matching |-> <<>>] :
                    k \in LevelKeys,
                    gs \in SeqsUpTo({FindGroup(g, 2) : g \in LevelKeys},
                                    MaxLevelGroups),
                    ms \in LevelMinSamples}
    /\ ret = None
    /\ PipelineIdle

\* relax_comps_key applied to the previous results for both keys
RelaxBoth ==
    /\ call.fn = "relax_comps_key"
    /\ Len(call.levels) < MaxRelaxCalls
    /\ \E level \in Levels :
        call' = [call EXCEPT !.levels = Append(@, level),
                             !.relaxed_a = relax_comps_key(@, level),
                             !.relaxed_b = relax_comps_key(@, level)]
    /\ pc' = "return"
    /\ UNCHANGED <<seen_listings, ret, pipeline_vars>>

\* one iteration of "for level in range(4)" that returns no group
FindLevelNext ==
    /\ pc = "call"
    /\ call.fn = "find_comps_for_listing"
    /\ call.level < 4
    /\ scan_groups(call.all_groups,
                   relax_comps_key(call.canonical_key, call.level),
                   call.level, call.min_sample, 1) = 0
    /\ call' = [call EXCEPT
                  !.level = @ + 1,
                  !.matching = Append(@, matching_groups(call.canonical_key,
                                                         call.all_groups,
                                                         call.level))]
    /\ UNCHANGED <<seen_listings, pc, ret, pipeline_vars>>

\* the iteration that returns the first group that matches and is large enough
FindLevelReturn ==
    /\ pc = "call"
    /\ call.fn = "find_comps_for_listing"
    /\ call.level < 4
    /\ LET i == scan_groups(call.all_groups,
                            relax_comps_key(call.canonical_key, call.level),
                            call.level, call.min_sample, 1)
       IN  /\ i # 0
           /\ ret' = <<Some(call.all_groups[i]), call.level>>
    /\ call' = [call EXCEPT
                  !.matching = Append(@, matching_groups(call.canonical_key,
                                                         call.all_groups,
                                                         call.level))]
    /\ pc' = "return"
    /\ UNCHANGED <<seen_listings, pipeline_vars>>

\* the loop is over: (None, -1)
FindLevelsExhausted ==
    /\ pc = "call"
    /\ call.fn = "find_comps_for_listing"
    /\ call.level = 4
    /\ ret' = <<None, -1>>
    /\ pc' = "return"
    /\ UNCHANGED <<seen_listings, call, pipeline_vars>>

NextLevels ==
    \/ RelaxBoth
    \/ FindLevelNext
    \/ FindLevelReturn
    \/ FindLevelsExhausted

SpecLevels == InitLevels /\ [][NextLevels]_vars

\* the levels applied so far do not decrease
C30_Ascending ==
    \A m, n \in 1..Len(call.levels) : m <= n => call.levels[m] <= call.levels[n]

\* the groups of the list in the family of the target
C30_SameFamily ==
    {g \in 1..Len(call.all_groups) :
        call.all_groups[g].comps_key.family = call.canonical_key.family}

\* C30: relaxation is monotone: for all keys a, b and levels i <= j in 0..3,
\* relaxing to level i and then to level j gives the key relaxed to level j,
\* and keys that are equal after relaxing to level i are equal after relaxing
\* to level j; so in find_comps_for_listing the set of groups matching a
\* target never shrinks as the level increases, and at level 3 every group of
\* the same family matches.
C30_RelaxMonotone ==
    /\ (call.fn = "relax_comps_key" /\ Len(call.levels) > 0 /\ C30_Ascending) =>
          LET i == call.levels[1]
              j == call.levels[Len(call.levels)]
          IN  /\ call.relaxed_a = relax_comps_key(call.a, j)
              /\ call.relaxed_b = relax_comps_key(call.b, j)
              /\ relax_comps_key(call.a, i) = relax_comps_key(call.b, i)
                    => call.relaxed_a = call.relaxed_b
    /\ call.fn = "find_comps_for_listing" =>
          /\ \A i, j \in 1..Len(call.matching) :
                i <= j => call.matching[i] \subseteq call.matching[j]
          /\ Len(call.matching) = 4 => call.matching[4] = C30_SameFamily

\* two different keys that agree from level 1 on, relaxed to level 1 and then
\* to level 2
C30_Witness ==
    /\ call.fn = "relax_comps_key"
    /\ call.levels = <<1, 2>>
    /\ call.a # call.b
    /\ ~IsNone(call.a.storage_bucket)
    /\ ~IsNone(call.a.model_variant)
    /\ call.relaxed_a = call.relaxed_b
    /\ relax_comps_key(call.a, 1) = relax_comps_key(call.b, 1)

\* all four levels tried: the matching groups grow from none at level 0 to
\* one at level 2 and both at level 3
C30_WitnessLevels ==
    /\ call.fn = "find_comps_for_listing"
    /\ pc = "return"
    /\ ret = <<None, -1>>
    /\ Len(call.all_groups) = 2
    /\ call.matching[1] = {}
    /\ Cardinality(call.matching[3]) = 1
    /\ call.matching[4] = {1, 2}

=============================================================================
